---- MODULE Spec2Model ----
(***************************************************************************)
(* A model of the LwM2M client runtime (lwm2m/*.py, ig60_*.py).            *)
(*                                                                         *)
(* The runtime is a set of handlers driven by one cooperative event loop.  *)
(* Each part of it is modelled as its own state machine over its own       *)
(* group of variables, with its own specification:                         *)
(*                                                                         *)
(*   SpecBlock1   lwm2m/block.py   Block1 upload into a file               *)
(*   SpecObj      lwm2m/object.py, resource.py, tlv.py   one object         *)
(*                instance, its resources and its observers                *)
(*   SpecReg      lwm2m/client.py   bootstrap, registration and its        *)
(*                refresh task                                             *)
(*   SpecRun      ig60_lwm2m_client.py, ig60_bearer.py   the bearer        *)
(*                supervisor                                               *)
(*   SpecBlock2   lwm2m/block.py   Block2 download of a file               *)
(*   SpecBlock2Shared   lwm2m/block.py   Block2 requests of two clients    *)
(*                in any order on one file resource                        *)
(*   SpecFw       lwm2m/fwupdate.py, ig60_fwupdate.py   the firmware       *)
(*                update object                                            *)
(*   SpecFwLive   SpecFw with the event loop running every task            *)
(*   SpecCm       lwm2m/connmon.py, ig60_connmon.py   the RSSI of the      *)
(*                connection monitor                                       *)
(*   SpecTlv      lwm2m/tlv.py   encoding and decoding of one TLV          *)
(*   SpecBs       lwm2m/bootstrap.py, client.py   the Security and          *)
(*                Server objects during a bootstrap                        *)
(*                                                                         *)
(* Every handler is one action: the event loop never interleaves two       *)
(* handlers except at an await.                                            *)
(***************************************************************************)
EXTENDS Integers, Sequences, FiniteSets, TLC

(***************************************************************************)
(* Python's None, and an optional value x, as sequences of length 0 and 1. *)
(***************************************************************************)
None == <<>>

Some(x) == <<x>>

\* F(x), with x evaluated once
Bind(x, F(_)) == CHOOSE r \in { F(v) : v \in {x} } : TRUE

(***************************************************************************)
(* The state.  Each part of the client is a group of variables with a      *)
(* specification of its own, whose actions leave the other groups as they  *)
(* are.                                                                    *)
(***************************************************************************)
VARIABLES
    \* lwm2m/block.py, the Block1 upload
    last_block_number,  \* LwM2MBlock1Resource.last_block_number: None or <<n>>
    f,                  \* LwM2MBlock1FileResource.f: TRUE when a sink file is open
    open_sinks,         \* the file objects open on file_path
    dest_file,          \* the bytes of the file at file_path, as a sequence of payloads
    total_bytes,        \* LwM2MBlock1FileResource.total_bytes
    start_calls,        \* the number of calls of start_cb so far
    end_calls,          \* the number of calls of end_cb so far
    end_seen,           \* what the last call of end_cb found: the sink and the count
    b1_log,             \* per request handled so far: its Block1 option and the
                        \* response (or escaping exception)
    \* lwm2m/object.py, lwm2m/resource.py, one object instance
    resources,      \* LwM2MObjectInst.resources, in insertion order
    observed,       \* the nodes whose observe flag is set
    notifications,  \* the updated_state calls of the last operation, in order
    obj_resp,       \* the response (or escaping exception) of the last operation
    obj_req,        \* the last operation on the object instance
    obj_ops,        \* the number of operations so far
    obj_payload,    \* the payload of the response to the last request
    \* lwm2m/client.py, the client's bootstrap and registration
    reg_pc,                 \* where start() and registration_task are
    bootstrap_configured,   \* bootstrap_address and bootstrap_port are set
    register_event,         \* LwM2MClient.register_event is set
    bootstrap_finish_event, \* LwM2MClient.bootstrap_finish_event is set
    rd_resource,            \* LwM2MClient.rd_resource: None or <<token>>
    objects,                \* the object instances of LwM2MClient.objects
    site,                   \* the object instances build_site put in the site
    server_reg,             \* the registration the server holds: None or
                            \* [token, expiry]
    now,                    \* the time, in seconds
    deadline,               \* when the wait_for of registration_task times out
    reg_log,                \* the registration messages sent, in order
    reg_resp,               \* the response the last step handled, or "none"
    run_no,                 \* the number of calls of start() so far
    bs_answered,            \* this run's bootstrap request was answered Changed
    bs_finished,            \* a POST /bs was received in this run after that
    signals,                \* the number of requests to object 12 so far
    wlan_post,              \* the last request to object 12 and its response
    \* ig60_lwm2m_client.py, ig60_bearer.py: the bearer supervisor
    run_pc,         \* where IG60LwM2MClient.run is
    result,         \* IG60LwM2MClient.result: None or <<status>>
    bearer,         \* the instances of the preferred-bearer multi-resource
    conns,          \* the interfaces get_available_connections reports
    candidates,     \* the addresses of this pass from the one in use on
    bound_to,       \* the binding given to connmon.update_bind: None or <<i>>
    run_req,        \* the last step of the supervisor or request to object 13
    run_resp,       \* its outcome
    run_ops,        \* the number of steps so far
    sw_update_state,    \* the update state of IG60SWManagementObject (/9/0)
    sw_update_result,   \* the update result of IG60SWManagementObject
    sw_unpack_tasks,    \* the unpack_verify_update tasks created and not yet run
    special_routes,     \* the interfaces a special route is installed for
    \* lwm2m/block.py, the Block2 download
    file_contents,  \* the bytes of the file at LwM2MBlock2FileResource.filename
    resp_sz_exp,    \* LwM2MBlock2FileResource.resp_sz_exp
    b2_f,           \* LwM2MBlock2FileResource.f: None, or <<n>> when it is open
                    \* at byte offset n
    b2_log,         \* the requests handled so far and their responses
    b2_journald,    \* the resource is an IG60JournaldLogResource
    b2_exists,      \* the file at LwM2MBlock2FileResource.filename exists
    b2_open,        \* the number of file objects open on it
    \* ig60_fwupdate.py, lwm2m/fwupdate.py: the firmware update object
    update_state,   \* the value of LwM2MFWUpdateObject.update_state (/5/0/3)
    update_result,  \* the value of LwM2MFWUpdateObject.update_result (/5/0/5)
    fw_downloaded,  \* IG60FWUpdateObject.fw_downloaded
    fw_tasks,       \* the tasks of the object that have not ended, in the
                    \* order of their creation
    fw_observed,    \* the resources of /5/0 that have an observer
    fw_notes,       \* the notifications sent to the observers, in order
    fw_last,        \* the last request or task step of the object
    fw_ops,         \* the number of requests so far
    \* ig60_connmon.py: the RSSI resource of the connection monitor
    ofono_strength, \* the Strength property Ofono reports: None or <<percent>>
    rssi_observe,   \* IG60OfonoRSSIResource.observe
    rssi_notes,     \* the values notified to the observer of /4/0/2, in order
    cm_req,         \* the last request to /4/0/2 or change of the strength
    cm_resp,        \* the response to the last request to /4/0/2
    cm_ops,         \* the number of requests and changes so far
    \* lwm2m/tlv.py: one TLV that is encoded and decoded again
    tlv_in,         \* the TLV to encode: [kind, id, t, n], the value being
                    \* of Python type t and of size or magnitude n
    tlv_out,        \* None, or <<what decode_tlv and decode_value returned>>
    \* lwm2m/bootstrap.py: the Security and Server objects during bootstrap
    security_instances, \* LwM2MSecurityBaseObject.instances: a set of [inst, uri]
    server_instances,   \* LwM2MServerBaseObject.instances: a set of [inst, lifetime]
    finish_received,    \* a POST /bs was received
    bs_pc,              \* where client_bootstrap stands
    bs_config,          \* what client_bootstrap took over: None or <<[uri, lifetime]>>
    bs_req,             \* the last request of the bootstrap server
    bs_resp,            \* the response to it
    bs_ops              \* the number of requests so far

b1vars == <<last_block_number, f, open_sinks, dest_file, total_bytes, start_calls,
            end_calls, end_seen, b1_log>>

objvars == <<resources, observed, notifications, obj_resp, obj_req, obj_ops,
             obj_payload>>

regvars == <<reg_pc, bootstrap_configured, register_event, bootstrap_finish_event,
             rd_resource, objects, site, server_reg, now, deadline, reg_log,
             reg_resp, run_no, bs_answered, bs_finished, signals, wlan_post>>

runvars == <<run_pc, result, bearer, conns, candidates, bound_to, run_req, run_resp,
             run_ops, sw_update_state, sw_update_result, sw_unpack_tasks,
             special_routes>>

b2vars == <<file_contents, resp_sz_exp, b2_f, b2_log, b2_journald, b2_exists, b2_open>>

fwvars == <<update_state, update_result, fw_downloaded, fw_tasks, fw_observed, fw_notes,
            fw_last, fw_ops>>

cmvars == <<ofono_strength, rssi_observe, rssi_notes, cm_req, cm_resp, cm_ops>>

tlvvars == <<tlv_in, tlv_out>>

bsvars == <<security_instances, server_instances, finish_received, bs_pc, bs_config, bs_req, bs_resp, bs_ops>>

vars == <<b1vars, objvars, regvars, runvars, b2vars, fwvars, cmvars, tlvvars, bsvars>>

\* what the actions of one part leave as it is
others_b1 == <<objvars, regvars, runvars, b2vars, fwvars, cmvars, tlvvars, bsvars>>

others_obj == <<b1vars, regvars, runvars, b2vars, fwvars, cmvars, tlvvars, bsvars>>

others_reg == <<b1vars, objvars, runvars, b2vars, fwvars, cmvars, tlvvars, bsvars>>

others_run == <<b1vars, objvars, regvars, b2vars, fwvars, cmvars, tlvvars, bsvars>>

others_b2 == <<b1vars, objvars, regvars, runvars, fwvars, cmvars, tlvvars, bsvars>>

others_fw == <<b1vars, objvars, regvars, runvars, b2vars, cmvars, tlvvars, bsvars>>

others_cm == <<b1vars, objvars, regvars, runvars, b2vars, fwvars, tlvvars, bsvars>>

others_tlv == <<b1vars, objvars, regvars, runvars, b2vars, fwvars, cmvars, bsvars>>

others_bs == <<b1vars, objvars, regvars, runvars, b2vars, fwvars, cmvars, tlvvars>>

(***************************************************************************)
(* Bounds of the model.                                                    *)
(***************************************************************************)
\* the number of Block1 requests one behaviour delivers
MaxB1Requests == 3

\* the largest Block1 block number a request carries
MaxBlockNum == 3

(***************************************************************************)
(* lwm2m/tlv.py: MediaType                                                 *)
(***************************************************************************)
MediaType_TEXT == 0

MediaType_OPAQUE == 42

MediaType_TLV == 11542

MediaType_JSON == 11543

(***************************************************************************)
(* lwm2m/tlv.py: the TLV codec.  A payload is a sequence of bytes          *)
(* (0..255).  An operation that can raise returns a record with ok and     *)
(* either its value v or the exception exc.                                *)
(***************************************************************************)
TlvType_OBJECT_INSTANCE == 0

TlvType_RESOURCE_INSTANCE == 64

TlvType_MULTIPLE_RESOURCE == 128

TlvType_RESOURCE_VALUE == 192

Ok(v) == [ok |-> TRUE, v |-> v]

Raise(exc) == [ok |-> FALSE, exc |-> exc]

\* Python's s[a:b] and s[a:], which cut the slice to the sequence
PySlice(s, a, b) == SubSeq(s, a + 1, IF b < Len(s) THEN b ELSE Len(s))

PyFrom(s, a) == SubSeq(s, a + 1, Len(s))

\* int.from_bytes(bs, byteorder='big')
RECURSIVE int_from_bytes(_)
int_from_bytes(bs) ==
    IF bs = <<>> THEN 0
    ELSE 256 * int_from_bytes(SubSeq(bs, 1, Len(bs) - 1)) + bs[Len(bs)]

\* int.from_bytes(bs, byteorder='big', signed=True)
int_from_bytes_signed(bs) ==
    IF bs # <<>> /\ bs[1] >= 128
    THEN int_from_bytes(bs) - 256 ^ Len(bs)
    ELSE int_from_bytes(bs)

\* n.to_bytes(length, byteorder='big') of n >= 0
RECURSIVE to_bytes(_, _)
to_bytes(n, length) ==
    IF length = 0 THEN <<>>
    ELSE Append(to_bytes(n \div 256, length - 1), n % 256)

\* n.to_bytes(length, byteorder='big', signed=True), for an n that fits
to_bytes_signed(n, length) ==
    IF n < 0 THEN to_bytes(256 ^ length + n, length) ELSE to_bytes(n, length)

\* int.bit_length()
RECURSIVE bit_length(_)
bit_length(n) ==
    IF n < 0 THEN bit_length(0 - n)
    ELSE IF n = 0 THEN 0 ELSE 1 + bit_length(n \div 2)

\* the number of base-256 digits of n: int(log(abs(n), 256)) + 1
RECURSIVE needs_bytes(_)
needs_bytes(n) ==
    IF n < 0 THEN needs_bytes(0 - n)
    ELSE IF n < 256 THEN 1 ELSE 1 + needs_bytes(n \div 256)

IsCont(b) == b >= 128 /\ b <= 191

\* bytes.decode('utf-8'): the code points, or <<-1>> at the end of the
\* result where the bytes are not UTF-8
RECURSIVE utf8_decode(_)
utf8_decode(bs) ==
    IF bs = <<>> THEN <<>>
    ELSE LET b == bs[1]
             n == Len(bs)
         IN  IF b < 128 THEN <<b>> \o utf8_decode(PyFrom(bs, 1))
             ELSE IF b >= 194 /\ b <= 223 /\ n >= 2 /\ IsCont(bs[2])
             THEN <<(b - 192) * 64 + (bs[2] - 128)>> \o utf8_decode(PyFrom(bs, 2))
             ELSE IF /\ b >= 224 /\ b <= 239 /\ n >= 3 /\ IsCont(bs[2]) /\ IsCont(bs[3])
                     /\ (b = 224 => bs[2] >= 160) /\ (b = 237 => bs[2] <= 159)
             THEN <<(b - 224) * 4096 + (bs[2] - 128) * 64 + (bs[3] - 128)>>
                    \o utf8_decode(PyFrom(bs, 3))
             ELSE IF /\ b >= 240 /\ b <= 244 /\ n >= 4
                     /\ IsCont(bs[2]) /\ IsCont(bs[3]) /\ IsCont(bs[4])
                     /\ (b = 240 => bs[2] >= 144) /\ (b = 244 => bs[2] <= 143)
             THEN <<(b - 240) * 262144 + (bs[2] - 128) * 4096 + (bs[3] - 128) * 64
                      + (bs[4] - 128)>> \o utf8_decode(PyFrom(bs, 4))
             ELSE <<-1>>

\* str.encode(): the UTF-8 bytes of a sequence of code points
RECURSIVE utf8_encode(_)
utf8_encode(cps) ==
    IF cps = <<>> THEN <<>>
    ELSE LET c == cps[1]
             head == IF c < 128 THEN <<c>>
                     ELSE IF c < 2048 THEN <<192 + (c \div 64), 128 + (c % 64)>>
                     ELSE IF c < 65536
                     THEN <<224 + (c \div 4096), 128 + ((c \div 64) % 64),
                            128 + (c % 64)>>
                     ELSE <<240 + (c \div 262144), 128 + ((c \div 4096) % 64),
                            128 + ((c \div 64) % 64), 128 + (c % 64)>>
         IN  head \o utf8_encode(PyFrom(cps, 1))

(***************************************************************************)
(* A resource value is [t |-> type(value).__name__, v |-> ...]: an int is  *)
(* an integer, a str its code points, a bool a BOOLEAN, bytes a sequence   *)
(* of bytes, a datetime its seconds since the epoch, a dict (the result    *)
(* of decode_multi_resource) a sequence of [inst, value] in insertion      *)
(* order.  A float is named by twice its value; FloatTable lists the       *)
(* floats of the model with the bytes of pack('>f') and pack('>d').        *)
(***************************************************************************)
FloatTable ==
    { [x2 |-> 3, single |-> <<63, 192, 0, 0>>, double |-> <<63, 248, 0, 0, 0, 0, 0, 0>>],
      [x2 |-> 4, single |-> <<64, 0, 0, 0>>,   double |-> <<64, 0, 0, 0, 0, 0, 0, 0>>] }

PyValue(t, v) == [t |-> t, v |-> v]

\* datetime.utcfromtimestamp accepts the years 1 to 9999
DatetimeInRange(seconds) == seconds >= -2000000000 /\ seconds <= 2000000000

\* TlvDecoder.decode_value
decode_value(_type, _bytes) ==
    IF _type = "int" THEN Ok(PyValue("int", int_from_bytes_signed(_bytes)))
    ELSE IF _type = "str"
    THEN LET cps == utf8_decode(_bytes)
         IN  IF cps # <<>> /\ cps[Len(cps)] = -1
             THEN Raise("UnicodeDecodeError")
             ELSE Ok(PyValue("str", cps))
    ELSE IF _type = "float" /\ Len(_bytes) = 4
    THEN Ok(PyValue("float", (CHOOSE e \in FloatTable : e.single = _bytes).x2))
    ELSE IF _type = "float" /\ Len(_bytes) = 8
    THEN Ok(PyValue("float", (CHOOSE e \in FloatTable : e.double = _bytes).x2))
    ELSE IF _type = "bool" THEN Ok(PyValue("bool", int_from_bytes(_bytes) # 0))
    ELSE IF _type = "datetime"
    THEN IF DatetimeInRange(int_from_bytes_signed(_bytes))
         THEN Ok(PyValue("datetime", int_from_bytes_signed(_bytes)))
         ELSE Raise("OverflowError")
    ELSE IF _type = "bytes" THEN Ok(PyValue("bytes", _bytes))
    ELSE Raise("TypeError")

\* TlvEncoder.encode_value
RECURSIVE encode_value(_)
encode_value(value) ==
    IF value.t = "int"
    THEN Ok(to_bytes_signed(value.v, (bit_length(value.v) \div 8) + 1))
    ELSE IF value.t = "str" THEN Ok(utf8_encode(value.v))
    ELSE IF value.t = "float"
    THEN LET e == CHOOSE e \in FloatTable : e.x2 = value.v
         \* the floats of FloatTable are within the range of a single
         IN  Ok(e.single)
    ELSE IF value.t = "bool" THEN Ok(IF value.v THEN <<1>> ELSE <<0>>)
    ELSE IF value.t = "datetime" THEN encode_value(PyValue("int", value.v))
    ELSE IF value.t = "bytes" THEN Ok(value.v)
    ELSE Raise("TypeError")

\* TlvEncoder.encode_tlv on the encoded payload of a value
encode_tlv_bytes(tlv_type, _id, payload) ==
    LET _len == Len(payload)
        id_bit == IF needs_bytes(_id) = 1 THEN 0 ELSE 32
        len_bits == IF _len < 8 THEN _len
                    ELSE IF needs_bytes(_len) = 1 THEN 8
                    ELSE IF needs_bytes(_len) = 2 THEN 16
                    ELSE 24
        id_bytes == IF _id < 256 THEN to_bytes(_id, 1) ELSE to_bytes(_id, 2)
        len_bytes == IF _len < 8 THEN <<>>
                     ELSE IF _len < 256 THEN to_bytes(_len, 1)
                     ELSE IF _len < 65536 THEN to_bytes(_len, 2)
                     \* msb = _len & 0xFF0000 >> 16, which is _len & 0xFF
                     ELSE to_bytes(_len % 256, 1) \o to_bytes(_len % 65536, 2)
    IN  <<tlv_type + id_bit + len_bits>> \o id_bytes \o len_bytes \o payload

\* TlvEncoder.encode_tlv
encode_tlv(tlv_type, _id, value) ==
    LET p == encode_value(value)
    IN  IF p.ok THEN Ok(encode_tlv_bytes(tlv_type, _id, p.v)) ELSE p

\* TlvDecoder.decode_tlv of a payload that is not empty
decode_tlv(_bytes) ==
    LET _type == _bytes[1]
        _len_type == (_type \div 8) % 4
        id_len == (_type \div 32) % 2
        p1 == PyFrom(_bytes, 1)
        _id == IF id_len = 1 THEN int_from_bytes(PySlice(p1, 0, 2))
               ELSE int_from_bytes(PySlice(p1, 0, 1))
        p2 == IF id_len = 1 THEN PyFrom(p1, 2) ELSE PyFrom(p1, 1)
        _len == IF _len_type = 0 THEN _type % 8
                ELSE int_from_bytes(PySlice(p2, 0, _len_type))
        p3 == IF _len_type = 0 THEN p2 ELSE PyFrom(p2, _len_type)
    IN  [type |-> _type - (_type % 64), id |-> _id,
         value |-> PySlice(p3, 0, _len), remain |-> PyFrom(p3, _len)]

(***************************************************************************)
(* lwm2m/resource.py, lwm2m/object.py: one object instance /O/I under its  *)
(* base object /O, its resources, their observers and the notifications    *)
(* (updated_state) they are sent.                                          *)
(*                                                                         *)
(* A resource is [id, kind, type, value, cb]: kind "value" is an           *)
(* LwM2MResourceValue, "multi" an LwM2MMultiResource whose value is the    *)
(* sequence of its instances [inst, value, wired] in insertion order       *)
(* (wired: the instance's notify_cb is the multi-resource's                *)
(* instance_changed), "exec" an LwM2MExecutableResource.  type is          *)
(* get_type(): the Python type name of the value given at construction.    *)
(* cb names value_written_cb; notify tells that notify_cb is the object    *)
(* instance's resource_changed (add_resource sets it, add_multi_resource   *)
(* does not set it on the multi-resource it creates).                      *)
(***************************************************************************)
Resource(id, kind, type, value, cb, notify) ==
    [id |-> id, kind |-> kind, type |-> type, value |-> value, cb |-> cb,
     notify |-> notify]

ResInst(inst, value, wired) == [inst |-> inst, value |-> value, wired |-> wired]

ObjNode(k, id, inst) == [k |-> k, id |-> id, inst |-> inst]

InstNode == ObjNode("inst", 0, 0)

BaseNode == ObjNode("base", 0, 0)

ResNode(id) == ObjNode("res", id, 0)

ResInstNode(id, inst) == ObjNode("resinst", id, inst)

\* the instance number of the modelled object instance
OBJ_INST == 0

\* the position of resource id in the instance's resources, 0 if absent
ResIndex(rs, id) ==
    IF \E i \in 1..Len(rs) : rs[i].id = id
    THEN CHOOSE i \in 1..Len(rs) : rs[i].id = id
    ELSE 0

\* the position of instance inst among the instances of a multi-resource
InstIndex(insts, inst) ==
    IF \E i \in 1..Len(insts) : insts[i].inst = inst
    THEN CHOOSE i \in 1..Len(insts) : insts[i].inst = inst
    ELSE 0

\* TlvEncoder.pack_resource_value: res.get_value() does not exist on an
\* executable resource
pack_resource_value(res) ==
    IF res.kind = "exec" THEN Raise("AttributeError")
    ELSE encode_tlv(TlvType_RESOURCE_VALUE, res.id, res.value)

\* TlvEncoder.pack_resource_inst
pack_resource_inst(res_inst) ==
    encode_tlv(TlvType_RESOURCE_INSTANCE, res_inst.inst, res_inst.value)

RECURSIVE pack_instances(_)
pack_instances(insts) ==
    IF insts = <<>> THEN Ok(<<>>)
    ELSE Bind(pack_resource_inst(insts[1]), LAMBDA head :
           IF ~head.ok THEN head
           ELSE Bind(pack_instances(PyFrom(insts, 1)), LAMBDA tail :
                  IF ~tail.ok THEN tail ELSE Ok(head.v \o tail.v)))

\* TlvEncoder.pack_multi_resource
pack_multi_resource(multi_res) ==
    Bind(pack_instances(multi_res.value), LAMBDA p :
      IF p.ok THEN encode_tlv(TlvType_MULTIPLE_RESOURCE, multi_res.id,
                              PyValue("bytes", p.v))
      ELSE p)

\* TlvEncoder.pack_object: the resources in the order of the dict
RECURSIVE pack_object(_)
pack_object(rs) ==
    IF rs = <<>> THEN Ok(<<>>)
    ELSE Bind(IF rs[1].kind = "multi" THEN pack_multi_resource(rs[1])
              ELSE pack_resource_value(rs[1]), LAMBDA head :
           IF ~head.ok THEN head
           ELSE Bind(pack_object(PyFrom(rs, 1)), LAMBDA tail :
                  IF ~tail.ok THEN tail ELSE Ok(head.v \o tail.v)))

\* TlvEncoder.pack_objects of the base object, which holds the one instance
pack_objects(rs) ==
    Bind(pack_object(rs), LAMBDA p :
      IF p.ok THEN encode_tlv(TlvType_OBJECT_INSTANCE, OBJ_INST, PyValue("bytes", p.v))
      ELSE p)

(***************************************************************************)
(* The state an operation works on: o = [resources, notifications, exc].   *)
(* exc is None until an exception is raised; an operator given a state     *)
(* with an exception returns it as it is (the statements after a raise do  *)
(* not run).                                                               *)
(***************************************************************************)
ObjState(rs) == [resources |-> rs, notifications |-> <<>>, exc |-> None]

\* self.updated_state(message) of the node, with the packed payload
updated_state(o, node, packed) ==
    IF o.exc # None THEN o
    ELSE Bind(packed, LAMBDA p :
           IF ~p.ok THEN [o EXCEPT !.exc = Some(p.exc)]
           ELSE [o EXCEPT !.notifications = Append(@, [node |-> node, payload |-> p.v])])

\* LwM2MBaseObject.inst_changed
inst_changed(o) ==
    IF o.exc = None /\ BaseNode \in observed
    THEN updated_state(o, BaseNode, pack_objects(o.resources))
    ELSE o

\* LwM2MObjectInst.resource_changed: notify_cb is the base object's
\* inst_changed (add_obj_inst)
resource_changed(o) ==
    IF o.exc # None THEN o
    ELSE Bind(IF InstNode \in observed
              THEN updated_state(o, InstNode, pack_object(o.resources))
              ELSE o, LAMBDA o1 : inst_changed(o1))

\* LwM2MResourceValue.set_value on the resource at position i
set_value(o, i, value) ==
    Bind([o EXCEPT !.resources[i].value = value], LAMBDA o1 :
      Bind(IF o1.resources[i].notify THEN resource_changed(o1) ELSE o1, LAMBDA o2 :
        IF ResNode(o2.resources[i].id) \in observed
        THEN updated_state(o2, ResNode(o2.resources[i].id),
                           pack_resource_value(o2.resources[i]))
        ELSE o2))

\* LwM2MMultiResource.instance_changed of the multi-resource at position i
instance_changed(o, i) ==
    IF o.exc # None THEN o
    ELSE Bind(IF ResNode(o.resources[i].id) \in observed
              THEN updated_state(o, ResNode(o.resources[i].id),
                                 pack_multi_resource(o.resources[i]))
              ELSE o, LAMBDA o1 :
           IF o1.resources[i].notify THEN resource_changed(o1) ELSE o1)

\* LwM2MResourceInst.set_value on instance j of the multi-resource at i
res_inst_set_value(o, i, j, value) ==
    Bind([o EXCEPT !.resources[i].value[j].value = value], LAMBDA o1 :
      Bind(IF o1.resources[i].value[j].wired THEN instance_changed(o1, i) ELSE o1,
           LAMBDA o2 :
        IF ResInstNode(o2.resources[i].id, o2.resources[i].value[j].inst) \in observed
        THEN updated_state(o2, ResInstNode(o2.resources[i].id,
                                           o2.resources[i].value[j].inst),
                           pack_resource_inst(o2.resources[i].value[j]))
        ELSE o2))

\* a value_written_cb: "none" is no callback; "validating" is one that,
\* like IG60OfonoAuthTypeResource.set_auth_cb, raises on a value outside
\* the values it accepts (here: on a negative int)
value_written_cb(cb, value) ==
    IF cb = "validating" /\ value.t = "int" /\ value.v < 0
    THEN Raise("Exception")
    ELSE Ok(value)

\* LwM2MResourceBase.update on the resource at position i
resource_update(o, i, value) ==
    IF value_written_cb(o.resources[i].cb, value).ok
    THEN [o EXCEPT !.resources[i].value = value]
    ELSE [o EXCEPT !.resources[i].value = value, !.exc = Some("Exception")]

\* LwM2MMultiResource.update on the multi-resource at position i:
\* instances is a dict, as the sequence of its [inst, value]
RECURSIVE multi_update(_, _, _)
multi_update(o, i, instances) ==
    IF o.exc # None \/ instances = <<>> THEN o
    ELSE Bind(InstIndex(o.resources[i].value, instances[1].inst), LAMBDA j :
           Bind(IF j # 0 THEN res_inst_set_value(o, i, j, instances[1].value)
                ELSE [o EXCEPT !.resources[i].value =
                        Append(@, ResInst(instances[1].inst, instances[1].value, FALSE))],
                LAMBDA o1 : multi_update(o1, i, PyFrom(instances, 1))))

\* self.resources[res_id].update(res) of LwM2MObjectInst.update
any_update(o, i, value) ==
    IF o.resources[i].kind = "multi"
    THEN IF value.t = "dict" THEN multi_update(o, i, value.v)
         \* instances.items() on a value that is no dict
         ELSE [o EXCEPT !.exc = Some("AttributeError")]
    ELSE resource_update(o, i, value)

\* LwM2MObjectInst.update: resources is a dict, as the sequence of its
\* [id, value]
RECURSIVE obj_inst_update(_, _)
obj_inst_update(o, upd) ==
    IF o.exc # None \/ upd = <<>> THEN o
    ELSE Bind(any_update(o, ResIndex(o.resources, upd[1].id), upd[1].value),
              LAMBDA o1 : obj_inst_update(o1, PyFrom(upd, 1)))

\* d[k] = v on a dict kept as a sequence of entries in insertion order,
\* key naming the field of an entry that holds its key
DictSet(d, key, entry) ==
    IF \E i \in 1..Len(d) : d[i][key] = entry[key]
    THEN [i \in 1..Len(d) |-> IF d[i][key] = entry[key] THEN entry ELSE d[i]]
    ELSE Append(d, entry)

\* TlvDecoder.decode_multi_resource: the value of each instance is decoded
\* from payload, which by then is what follows the instance's TLV
RECURSIVE decode_multi_resource_loop(_, _, _)
decode_multi_resource_loop(res_type, payload, instances) ==
    IF payload = <<>> THEN Ok(PyValue("dict", instances))
    ELSE Bind(decode_tlv(payload), LAMBDA t :
           IF t.type # TlvType_RESOURCE_INSTANCE THEN Raise("Exception")
           ELSE Bind(decode_value(res_type, t.remain), LAMBDA newval :
                  IF ~newval.ok THEN newval
                  ELSE decode_multi_resource_loop(res_type, t.remain,
                         DictSet(instances, "inst",
                                 [inst |-> t.id, value |-> newval.v]))))

decode_multi_resource(res_type, payload) ==
    decode_multi_resource_loop(res_type, payload, <<>>)

\* the decoding of one TLV of update_object for the resource res
decode_resource(res, t) ==
    IF res.kind = "exec" THEN Raise("AttributeError")  \* get_type
    ELSE IF t.type = TlvType_RESOURCE_VALUE THEN decode_value(res.type, t.value)
    ELSE IF t.type = TlvType_MULTIPLE_RESOURCE
    THEN decode_multi_resource(res.type, t.value)
    ELSE Raise("Exception")

\* lines 294-307 of TlvDecoder.update_object: decode and validate every
\* resource of the payload into the dict resources
RECURSIVE decode_resources(_, _, _)
decode_resources(rs, payload, upd) ==
    IF payload = <<>> THEN Ok(upd)
    ELSE Bind(decode_tlv(payload), LAMBDA t :
           IF ResIndex(rs, t.id) = 0 THEN decode_resources(rs, t.remain, upd)
           ELSE Bind(decode_resource(rs[ResIndex(rs, t.id)], t), LAMBDA d :
                  IF ~d.ok THEN d
                  ELSE decode_resources(rs, t.remain,
                         DictSet(upd, "id", [id |-> t.id, value |-> d.v]))))

\* the outcome of a request: the state it leaves and the response
ObjOutcome(o, resp) ==
    [resources |-> o.resources, notifications |-> o.notifications, resp |-> resp]

\* TlvDecoder.update_object
update_object(rs, request) ==
    IF request.content_format # MediaType_TLV
    THEN ObjOutcome(ObjState(rs), "NOT_ACCEPTABLE")
    ELSE Bind(decode_resources(rs, request.payload, <<>>), LAMBDA d :
           IF ~d.ok THEN ObjOutcome(ObjState(rs), "BAD_REQUEST")
           ELSE Bind(obj_inst_update(ObjState(rs), d.v), LAMBDA o :
                  ObjOutcome(o, IF o.exc # None THEN "BAD_REQUEST" ELSE "CHANGED")))

\* TlvDecoder.update_resource_value on the resource value at position i
update_resource_value(rs, i, request) ==
    IF request.content_format # MediaType_TLV
    THEN ObjOutcome(ObjState(rs), "NOT_ACCEPTABLE")
    ELSE IF request.payload = <<>>
    THEN ObjOutcome(ObjState(rs), "BAD_REQUEST")    \* _bytes[0]: IndexError
    ELSE Bind(decode_tlv(request.payload), LAMBDA t :
           IF t.type # TlvType_RESOURCE_VALUE
           \* logger.error(f'Invalid TLV type: {_type}'): _type is not defined
           THEN ObjOutcome(ObjState(rs), "NameError")
           ELSE IF t.id # rs[i].id THEN ObjOutcome(ObjState(rs), "BAD_REQUEST")
           ELSE Bind(decode_value(rs[i].type, t.value), LAMBDA newval :
                  IF ~newval.ok THEN ObjOutcome(ObjState(rs), "BAD_REQUEST")
                  ELSE Bind(resource_update(ObjState(rs), i, newval.v), LAMBDA o :
                         ObjOutcome(o, IF o.exc # None THEN "BAD_REQUEST"
                                       ELSE "CHANGED"))))

\* TlvDecoder.update_multi_resource on the multi-resource at position i: a
\* content format other than TLV raises Exception out of the handler.
\* Line 266 unpacks what decode_tlv returns into three names; decode_tlv
\* returns four values, so the unpacking raises ValueError (as decode_tlv
\* raises IndexError on an empty payload), which the bare except answers
\* with BAD_REQUEST.
update_multi_resource(rs, i, request) ==
    IF request.content_format # MediaType_TLV
    THEN ObjOutcome(ObjState(rs), "Exception")
    ELSE IF request.payload = <<>>
    THEN ObjOutcome(ObjState(rs), "BAD_REQUEST")
    ELSE Bind(decode_tlv(request.payload), LAMBDA t :
           IF Cardinality(DOMAIN t) # 3
           THEN ObjOutcome(ObjState(rs), "BAD_REQUEST")
           ELSE IF t.type # TlvType_MULTIPLE_RESOURCE
           THEN ObjOutcome(ObjState(rs), "Exception")
           ELSE IF t.id # rs[i].id THEN ObjOutcome(ObjState(rs), "Exception")
           ELSE Bind(decode_multi_resource(rs[i].type, t.value), LAMBDA d :
                  IF ~d.ok THEN ObjOutcome(ObjState(rs), "BAD_REQUEST")
                  ELSE Bind(multi_update(ObjState(rs), i, d.v.v), LAMBDA o :
                         ObjOutcome(o, IF o.exc # None THEN "BAD_REQUEST"
                                       ELSE "CHANGED"))))

(***************************************************************************)
(* The object instance of the model and the requests made to it.           *)
(***************************************************************************)
\* the number of operations on the object instance in one behaviour
MaxObjOps == 2

RES_STR == 0

RES_FLOAT == 1

RES_INT == 2

RES_EXEC == 4

RES_MULTI == 6

\* a resource id the object instance does not have
RES_ABSENT == 9

\* LwM2MObjectInst after its construction: a str, a float and an int
\* resource value (the int with a validating value_written_cb), then with
\* with_exec an executable resource, and a multi-resource with one int
\* instance, added with add_resource and wired or, with_exec, created by
\* add_multi_resource
ObjResources(with_exec) ==
    <<Resource(RES_STR, "value", "str", PyValue("str", <<66>>), "none", TRUE),
      Resource(RES_FLOAT, "value", "float", PyValue("float", 3), "none", TRUE),
      Resource(RES_INT, "value", "int", PyValue("int", 1), "validating", TRUE)>>
    \o (IF with_exec
        THEN <<Resource(RES_EXEC, "exec", "NoneType", PyValue("NoneType", 0), "none", TRUE)>>
        ELSE <<>>)
    \o <<Resource(RES_MULTI, "multi", "int", <<ResInst(0, PyValue("int", 1), TRUE)>>,
                  "none", ~with_exec)>>

\* the resources as the dict of the instance holds them when the calls of
\* add_resource come in another order: the resource that ObjResources has
\* first is added last (as IG60DeviceObject adds MEMORY_FREE after
\* UTC_OFFSET)
add_order(rs, first_last) ==
    IF first_last THEN Tail(rs) \o <<Head(rs)>> ELSE rs

\* a TLV as a server sends it
RV(id, value_bytes) == encode_tlv_bytes(TlvType_RESOURCE_VALUE, id, value_bytes)

RI(inst, value_bytes) == encode_tlv_bytes(TlvType_RESOURCE_INSTANCE, inst, value_bytes)

MR(id, inst_payload) == encode_tlv_bytes(TlvType_MULTIPLE_RESOURCE, id, inst_payload)

\* the value bytes a server sends
ObjValueBytes == {<<65>>, <<255>>, <<64, 0, 0, 0>>, <<97, 98, 99>>}

\* the TLVs of a resource value a server sends
ObjValueItems ==
    { RV(id, b) : id \in {RES_STR, RES_FLOAT, RES_INT}, b \in ObjValueBytes }
    \cup { RV(RES_EXEC, <<>>), RV(RES_MULTI, <<65>>), RV(RES_ABSENT, <<65>>) }

\* the TLVs a server sends
ObjItems ==
    ObjValueItems
    \cup { MR(RES_MULTI, RI(0, <<5>>)), MR(RES_MULTI, RI(1, <<7>>)),
           MR(RES_MULTI, RI(0, <<5>>) \o RI(1, <<7>>)),
           MR(RES_STR, RI(0, <<65>>)), RI(0, <<65>>) }

\* the TLVs that lead a payload of two
ObjFirstItems ==
    { RV(RES_STR, <<65>>), RV(RES_FLOAT, <<64, 0, 0, 0>>), RV(RES_INT, <<65>>),
      MR(RES_MULTI, RI(1, <<7>>)) }

\* the payloads of a request to the object instance
ObjPayloads == {<<>>} \cup ObjItems \cup { a \o b : a \in ObjFirstItems, b \in ObjItems }

\* the payloads of a request to a resource value
ResPayloads == {<<>>, RI(0, <<65>>)} \cup ObjValueItems

\* the values the program sets with set_value
SetValues(type) ==
    IF type = "str" THEN { PyValue("str", <<67>>), PyValue("str", <<233>>) }
    ELSE IF type = "float" THEN { PyValue("float", 4) }
    ELSE { PyValue("int", 7), PyValue("int", 300) }

\* the nodes a server observes
ObservableNodes ==
    { InstNode, BaseNode, ResNode(RES_STR), ResNode(RES_MULTI), ResInstNode(RES_MULTI, 0) }

ObjRequest(op, id, content_format, payload) ==
    [op |-> op, id |-> id, content_format |-> content_format, payload |-> payload]

ObjApply(request, outcome) ==
    /\ obj_ops < MaxObjOps
    /\ obj_ops' = obj_ops + 1
    /\ obj_req' = request
    /\ \E r \in {outcome} :
         /\ resources' = r.resources
         /\ notifications' = r.notifications
         /\ obj_resp' = r.resp
         /\ obj_payload' = IF "payload" \in DOMAIN r THEN r.payload ELSE <<>>
    /\ UNCHANGED others_obj

\* LwM2MObjectInst.render_put, render_post
ObjInstWrite ==
    \E content_format \in {MediaType_TLV, MediaType_JSON}, payload \in ObjPayloads :
        LET request == ObjRequest("obj_write", 0, content_format, payload)
        IN  /\ content_format # MediaType_TLV => payload = <<>>
            /\ ObjApply(request, update_object(resources, request))
            /\ UNCHANGED observed

\* LwM2MResourceValue.render_put, render_post
ResourceWrite ==
    \E i \in 1..Len(resources), content_format \in {MediaType_TLV, MediaType_JSON},
       payload \in ResPayloads :
        LET request == ObjRequest("res_write", resources[i].id, content_format, payload)
        IN  /\ resources[i].kind = "value"
            /\ content_format # MediaType_TLV => payload = <<>>
            /\ ObjApply(request, update_resource_value(resources, i, request))
            /\ UNCHANGED observed

\* the instances a server writes to a multi-resource, each [inst, byte]:
\* instance 0 exists, instance 1 is new
MultiInstances ==
    { <<[inst |-> 0, byte |-> 5]>>, <<[inst |-> 1, byte |-> 7]>>,
      <<[inst |-> 0, byte |-> 5], [inst |-> 1, byte |-> 7]>> }

\* the RESOURCE_INSTANCE TLVs of the instances, each an Integer of one byte
RECURSIVE InstanceTlvs(_)
InstanceTlvs(insts) ==
    IF insts = <<>> THEN <<>>
    ELSE RI(insts[1].inst, <<insts[1].byte>>) \o InstanceTlvs(Tail(insts))

\* the payloads of a request to a multi-resource: well-formed
\* MULTIPLE_RESOURCE TLVs, one whose instance is a RESOURCE_VALUE TLV, a
\* RESOURCE_VALUE TLV and nothing
MultiPayloads ==
    { MR(RES_MULTI, InstanceTlvs(insts)) : insts \in MultiInstances }
    \cup { MR(RES_MULTI, RV(0, <<5>>)), RV(RES_MULTI, <<65>>), <<>> }

\* LwM2MMultiResource.render_put, render_post
MultiResourceWrite ==
    \E i \in 1..Len(resources),
       content_format \in {MediaType_TLV, MediaType_JSON, MediaType_OPAQUE},
       payload \in MultiPayloads :
        LET request == ObjRequest("multi_write", resources[i].id, content_format, payload)
        IN  /\ resources[i].kind = "multi"
            /\ ObjApply(request, update_multi_resource(resources, i, request))
            /\ UNCHANGED observed

\* the program changes a resource value: LwM2MResourceValue.set_value.
\* An exception leaves set_value to the program's caller.
SetValue ==
    \E i \in 1..Len(resources) :
        /\ resources[i].kind = "value"
        /\ \E value \in SetValues(resources[i].type) :
             \E o \in {set_value(ObjState(resources), i, value)} :
                 /\ ObjApply(ObjRequest("set_value", resources[i].id, 0, <<>>),
                             ObjOutcome(o, IF o.exc = None THEN "returned" ELSE o.exc[1]))
                 /\ UNCHANGED observed

\* the program changes a resource instance: LwM2MResourceInst.set_value
SetInstValue ==
    \E i \in 1..Len(resources) :
        /\ resources[i].kind = "multi"
        /\ \E j \in 1..Len(resources[i].value), value \in SetValues("int") :
             \E o \in {res_inst_set_value(ObjState(resources), i, j, value)} :
                 /\ ObjApply(ObjRequest("set_inst_value", resources[i].id, 0, <<>>),
                             ObjOutcome(o, IF o.exc = None THEN "returned" ELSE o.exc[1]))
                 /\ UNCHANGED observed

\* update_observation_count: a first observer arrives at a node
Observe ==
    \E node \in ObservableNodes \ observed :
        /\ obj_ops < MaxObjOps
        /\ obj_ops' = obj_ops + 1
        /\ observed' = observed \cup {node}
        /\ obj_req' = ObjRequest("observe", node.id, 0, <<>>)
        /\ notifications' = <<>>
        /\ obj_resp' = "CONTENT"
        /\ obj_payload' = <<>>
        /\ UNCHANGED <<resources, others_obj>>

\* TlvEncoder.get_object: the response to a GET of the object instance
get_object(rs) ==
    Bind(pack_object(rs), LAMBDA p :
      [resources |-> rs, notifications |-> notifications,
       resp |-> IF p.ok THEN "CONTENT" ELSE p.exc,
       payload |-> IF p.ok THEN p.v ELSE <<>>])

\* LwM2MObjectInst.render_get
ObjInstGet ==
    /\ ObjApply(ObjRequest("obj_get", 0, 0, <<>>), get_object(resources))
    /\ UNCHANGED observed

NextObj ==
    \/ ObjInstWrite
    \/ ResourceWrite
    \/ MultiResourceWrite
    \/ SetValue
    \/ SetInstValue
    \/ Observe
    \/ ObjInstGet

(***************************************************************************)
(* Claims on the object instance.                                          *)
(***************************************************************************)
\* the step is one operation on the object instance
ObjStep == obj_ops' = obj_ops + 1

SameValue(a, b) == a.t = b.t /\ a.v = b.v

\* resource i holds the same value (a multi-resource: the same instances
\* with the same values) in rs1 and rs2
SameResource(rs1, rs2, i) ==
    IF rs1[i].kind = "multi"
    THEN /\ Len(rs1[i].value) = Len(rs2[i].value)
         /\ \A j \in 1..Len(rs1[i].value) :
              /\ rs1[i].value[j].inst = rs2[i].value[j].inst
              /\ SameValue(rs1[i].value[j].value, rs2[i].value[j].value)
    ELSE SameValue(rs1[i].value, rs2[i].value)

SameResources(rs1, rs2) ==
    /\ Len(rs1) = Len(rs2)
    /\ \A i \in 1..Len(rs1) : rs1[i].id = rs2[i].id /\ SameResource(rs1, rs2, i)

\* the value bytes are the wire form of a value of the type: an Integer of
\* 1, 2, 4 or 8 bytes, a String of UTF-8, a Float of 32 or 64 bits
WellTyped(type, value_bytes) ==
    IF type = "int" THEN Len(value_bytes) \in {1, 2, 4, 8}
    ELSE IF type = "str" THEN decode_value("str", value_bytes).ok
    ELSE IF type = "float" THEN Len(value_bytes) \in {4, 8}
    ELSE FALSE

\* the payload is two RESOURCE_VALUE TLVs for two resource values of the
\* instance, the first correctly typed, the second type-mismatched
TypedThenMismatched(rs, payload) ==
    /\ payload # <<>>
    /\ \E t1 \in {decode_tlv(payload)} :
         /\ t1.remain # <<>>
         /\ \E t2 \in {decode_tlv(t1.remain)} :
              /\ t2.remain = <<>>
              /\ t1.type = TlvType_RESOURCE_VALUE
              /\ t2.type = TlvType_RESOURCE_VALUE
              /\ t1.id # t2.id
              /\ ResIndex(rs, t1.id) # 0
              /\ ResIndex(rs, t2.id) # 0
              /\ rs[ResIndex(rs, t1.id)].kind = "value"
              /\ rs[ResIndex(rs, t2.id)].kind = "value"
              /\ WellTyped(rs[ResIndex(rs, t1.id)].type, t1.value)
              /\ ~WellTyped(rs[ResIndex(rs, t2.id)].type, t2.value)

\* C2: a write to the object instance whose TLV payload holds a correctly
\* typed resource followed by a type-mismatched resource is answered
\* BAD_REQUEST and leaves every resource value of the instance as it was.
C2_AtomicUpdate ==
    [][(/\ ObjStep
        /\ obj_req'.op = "obj_write"
        /\ obj_req'.content_format = MediaType_TLV
        /\ TypedThenMismatched(resources, obj_req'.payload))
       => (obj_resp' = "BAD_REQUEST" /\ SameResources(resources, resources'))]_vars

\* the step changes the value of exactly one resource value of the instance
\* and nothing else in it
OneSingleChange ==
    /\ ObjStep
    /\ Len(resources') = Len(resources)
    /\ \E i \in 1..Len(resources) :
         /\ resources[i].kind = "value"
         /\ ~SameResource(resources, resources', i)
         /\ \A k \in 1..Len(resources) \ {i} : SameResource(resources, resources', k)

\* the notifications of the step that go to the observer of the node
NotificationsTo(node) ==
    { n \in 1..Len(notifications') : notifications'[n].node = node }

\* C3: with an observer on the object instance, each single change of a
\* resource value beneath it emits exactly one notification to that
\* observer, whose payload is the TLV encoding of the whole instance in its
\* state after the change.
C3_OneNotificationPerChange ==
    [][(InstNode \in observed /\ OneSingleChange)
       => (/\ Cardinality(NotificationsTo(InstNode)) = 1
           /\ pack_object(resources').ok
           /\ \A n \in NotificationsTo(InstNode) :
                notifications'[n].payload = pack_object(resources').v)]_vars

\* the resources in ascending order of their ids
SortedById(rs) ==
    [i \in DOMAIN rs |->
       rs[CHOOSE k \in DOMAIN rs :
              Cardinality({m \in DOMAIN rs : rs[m].id < rs[k].id}) = i - 1]]

\* the resources that have a value
Readable(rs) == SelectSeq(rs, LAMBDA r : r.kind # "exec")

\* C15: a GET of the object instance is answered Content with the TLVs of
\* its resources in ascending order of resource id, whatever the order in
\* which they were added, and also when the instance holds an executable
\* resource.
C15_GetInAscendingIdOrder ==
    obj_req.op = "obj_get"
        => (/\ obj_resp = "CONTENT"
            /\ obj_payload = pack_object(SortedById(Readable(resources))).v)

\* the step is a write to a resource value that is answered Changed
ResourceWriteChanged ==
    /\ ObjStep
    /\ obj_req'.op = "res_write"
    /\ obj_resp' = "CHANGED"

\* C22: a write to a single resource that is answered Changed sends a
\* notification to each observer of the resource, of its object instance
\* and of its base object.
C22_WriteNotifiesObservers ==
    [][ResourceWriteChanged
       => \A node \in observed \cap {ResNode(obj_req'.id), InstNode, BaseNode} :
              NotificationsTo(node) # {}]_vars

\* the step is a set_value on a resource instance that changes its value
ResInstValueChanged ==
    /\ ObjStep
    /\ obj_req'.op = "set_inst_value"
    /\ obj_resp' = "returned"
    /\ ~SameResources(resources, resources')

\* C33: when the value of a resource instance /O/I/R/Ri changes, an
\* observer of the object instance /O/I is notified, whether the
\* multi-resource was attached with add_resource or created by
\* add_multi_resource.
C33_InstanceObserverNotified ==
    [][(ResInstValueChanged /\ InstNode \in observed)
       => NotificationsTo(InstNode) # {}]_vars

\* the write callback of the resource at position i rejects the value that
\* the bytes decode to
CallbackRejects(rs, i, value_bytes) ==
    /\ rs[i].kind = "value"
    /\ decode_value(rs[i].type, value_bytes).ok
    /\ ~value_written_cb(rs[i].cb, decode_value(rs[i].type, value_bytes).v).ok

\* the request is a TLV write to a resource value whose callback rejects the
\* value written
RejectedResourceWrite(rs, request) ==
    /\ request.op = "res_write"
    /\ request.content_format = MediaType_TLV
    /\ request.payload # <<>>
    /\ \E t \in {decode_tlv(request.payload)} :
         /\ t.type = TlvType_RESOURCE_VALUE
         /\ t.id = request.id
         /\ CallbackRejects(rs, ResIndex(rs, t.id), t.value)

\* the request is a TLV write to the object instance of resource values
\* that all decode, one of which the callback of its resource rejects
RejectedInstanceWrite(rs, request) ==
    /\ request.op = "obj_write"
    /\ request.content_format = MediaType_TLV
    /\ \E d \in {decode_resources(rs, request.payload, <<>>)} :
         /\ d.ok
         /\ \A k \in 1..Len(d.v) : rs[ResIndex(rs, d.v[k].id)].kind = "value"
         /\ \E k \in 1..Len(d.v) :
              ~value_written_cb(rs[ResIndex(rs, d.v[k].id)].cb, d.v[k].value).ok

\* C23: a write whose value the resource's write callback rejects is
\* answered BadRequest and the resource keeps the value it held; in a write
\* to the object instance, a rejection by one resource's callback leaves
\* every resource of the instance as it was.
C23_RejectedWriteKeepsValue ==
    [][(/\ ObjStep
        /\ \/ RejectedResourceWrite(resources, obj_req')
           \/ RejectedInstanceWrite(resources, obj_req'))
       => (obj_resp' = "BAD_REQUEST" /\ SameResources(resources, resources'))]_vars

\* the step is a TLV write of the payload to the multi-resource
MultiWriteOf(payload) ==
    /\ ObjStep
    /\ obj_req'.op = "multi_write"
    /\ obj_req'.content_format = MediaType_TLV
    /\ obj_req'.payload = payload

\* the multi-resource res maps instance inst to the Integer byte
HoldsInstance(res, inst, byte) ==
    \E j \in 1..Len(res.value) :
        /\ res.value[j].inst = inst
        /\ SameValue(res.value[j].value, PyValue("int", byte))

\* C24: a write to a multi-resource of a well-formed MULTIPLE_RESOURCE TLV
\* whose instance values are of the resource's type is answered Changed,
\* and afterwards every instance of the payload holds the value written,
\* whether the instance existed or not; a payload with an instance TLV
\* that does not decode is answered BadRequest and changes no instance.
C24_MultiResourceWrite ==
    [][/\ \A insts \in MultiInstances :
            MultiWriteOf(MR(RES_MULTI, InstanceTlvs(insts)))
                => /\ obj_resp' = "CHANGED"
                   /\ \A k \in 1..Len(insts) :
                        HoldsInstance(resources'[ResIndex(resources', RES_MULTI)],
                                      insts[k].inst, insts[k].byte)
       /\ MultiWriteOf(MR(RES_MULTI, RV(0, <<5>>)))
            => (obj_resp' = "BAD_REQUEST" /\ SameResources(resources, resources'))]_vars

\* the step is a write (POST or PUT) to the object instance, to a resource
\* value or to a multi-resource with a Content-Format other than TLV
WriteWithoutTlv ==
    /\ ObjStep
    /\ obj_req'.op \in {"obj_write", "res_write", "multi_write"}
    /\ obj_req'.content_format # MediaType_TLV

\* C19: a write whose Content-Format is not TLV is answered NotAcceptable
\* and changes no resource, whether it is addressed to the object instance,
\* to a single resource or to a multi-resource.
C19_WrongFormatNotAcceptable ==
    [][WriteWithoutTlv => (obj_resp' = "NOT_ACCEPTABLE" /\ resources' = resources)]_vars

(***************************************************************************)
(* lwm2m/block.py                                                          *)
(***************************************************************************)
COAP_BLOCKWISE_MAX_EXPONENT == 6

\* 1 << n
Shl1(n) == 2 ^ n

\* aiocoap's BlockwiseTuple.size: the block size a size exponent stands for
BlockSize(size_exponent) == Shl1(size_exponent + 4)

(***************************************************************************)
(* A Block1 request.  Its payload bytes are not interpreted by the upload  *)
(* path, so a payload is named by who sent it, the block it was sent as    *)
(* and its length: [snd, blk, len].  block1 is None or <<[block_number,    *)
(* more, size_exponent]>>.                                                 *)
(***************************************************************************)
\* the servers that upload to the resource
B1Senders == {"A", "B"}

B1SizeExponents == {0}

B1PayloadLens == {BlockSize(0), 5}

B1Formats == {MediaType_OPAQUE, MediaType_TLV, MediaType_JSON}

B1BlockOptions ==
    {None} \cup
    { Some([block_number |-> n, more |-> m, size_exponent |-> e]) :
        n \in 0..MaxBlockNum, m \in BOOLEAN, e \in B1SizeExponents }

B1Request(snd, fmt, block1, len) ==
    [snd |-> snd, content_format |-> fmt, block1 |-> block1, len |-> len]

\* the request's payload, as the bytes it holds
B1Payload(request) ==
    [snd |-> request.snd, blk |-> request.block1, len |-> request.len,
     tlv |-> request.content_format = MediaType_TLV]

\* TlvDecoder.decode_tlv(payload)[2] for a payload that is one TLV: the
\* value inside; the header is 2 bytes for a value of less than 8 bytes
\* and 3 bytes for one of less than 256.
TlvHeaderLen(len) == IF len - 2 < 8 THEN 2 ELSE 3

decode_payload(request) ==
    IF request.content_format = MediaType_TLV
    THEN [B1Payload(request) EXCEPT !.len = request.len - TlvHeaderLen(request.len),
                                    !.tlv = FALSE]
    ELSE B1Payload(request)

(***************************************************************************)
(* LwM2MBlock1Resource.handle_blockwise with the start_payload and         *)
(* handle_payload of LwM2MBlock1FileResource, as the outcome of one        *)
(* request in the current state: a record of the new values of the         *)
(* resource's fields and the response.  An exception that escapes the      *)
(* handler is the response named after it.                                 *)
(***************************************************************************)
B1State ==
    [last_block_number |-> last_block_number, f |-> f, open_sinks |-> open_sinks,
     dest_file |-> dest_file, total_bytes |-> total_bytes,
     start_calls |-> start_calls, end_calls |-> end_calls, end_seen |-> end_seen]

\* start_payload that neither closes a stale sink nor truncates the file
start_payload_keeping_file(s) ==
    [s EXCEPT !.f = TRUE, !.open_sinks = s.open_sinks + 1, !.total_bytes = 0,
              !.start_calls = s.start_calls + 1]

\* LwM2MBlock1FileResource.start_payload: close a stale sink, open the
\* file for writing (truncating it), reset the count, call start_cb
start_payload(s) ==
    [s EXCEPT !.f = TRUE,
              !.open_sinks = (IF s.f THEN s.open_sinks - 1 ELSE s.open_sinks) + 1,
              !.dest_file = <<>>, !.total_bytes = 0,
              !.start_calls = s.start_calls + 1]

\* self.end_cb(): the callback runs with the resource as it is then
end_cb(s) ==
    [s EXCEPT !.end_calls = s.end_calls + 1,
              !.end_seen = Some([sink_open |-> s.f, total_bytes |-> s.total_bytes,
                                 blocks |-> Len(s.dest_file)])]

\* LwM2MBlock1FileResource.handle_payload; only called with the sink open
handle_payload(s, payload, more) ==
    LET w == [s EXCEPT !.dest_file = Append(s.dest_file, payload),
                       !.total_bytes = s.total_bytes + payload.len]
    IN  IF more THEN w
        ELSE end_cb([w EXCEPT !.f = FALSE, !.open_sinks = w.open_sinks - 1])

\* handle_payload on the resource, which raises when self.f is None
handle_payload_resp(s, request, more, resp) ==
    IF s.f
    THEN [state |-> handle_payload(s, decode_payload(request), more), resp |-> resp]
    ELSE [state |-> s, resp |-> "AttributeError"]

\* lines 75-90: the size check of a block with more set, then the payload
handle_block(s, request) ==
    LET b == request.block1[1]
    IN  IF b.more
        THEN IF request.len # BlockSize(b.size_exponent)
                \* Message(code=Codes.BAD_REQUEST): the name Codes is not defined
             THEN [state |-> s, resp |-> "NameError"]
             ELSE handle_payload_resp(s, request, TRUE, "CONTINUE")
        ELSE handle_payload_resp(s, request, FALSE, "CHANGED")

\* a Continue whose Block1 option repeats the request's size exponent
continue_option_of_request(request) ==
    [block_number |-> request.block1[1].block_number, more |-> TRUE,
     size_exponent |-> request.block1[1].size_exponent]

\* the Block1 option of a Continue: the request's block number, more, and
\* self.resp_sz_exp, which LwM2MBlock1FileResource leaves at its default
continue_option(request) ==
    [block_number |-> request.block1[1].block_number, more |-> TRUE,
     size_exponent |-> COAP_BLOCKWISE_MAX_EXPONENT]

\* handle_blockwise without the comparison with last_block_number + 1
handle_blockwise_any_number(s, request) ==
    IF /\ request.content_format # MediaType_OPAQUE
       /\ request.content_format # MediaType_TLV
    THEN [state |-> s, resp |-> "NOT_ACCEPTABLE"]
    ELSE IF request.block1 = None
    THEN handle_payload_resp(start_payload(s), request, FALSE, "CHANGED")
    ELSE LET b == request.block1[1]
         IN  IF b.block_number = 0
             THEN handle_block(
                    [start_payload(s) EXCEPT !.last_block_number = Some(0)], request)
             ELSE IF s.last_block_number = None
             THEN [state |-> s, resp |-> "TypeError"]
             ELSE handle_block(
                    [s EXCEPT !.last_block_number = Some(b.block_number)], request)

handle_blockwise(s, request) ==
    IF /\ request.content_format # MediaType_OPAQUE
       /\ request.content_format # MediaType_TLV
    THEN [state |-> s, resp |-> "NOT_ACCEPTABLE"]
    ELSE IF request.block1 = None
    THEN handle_payload_resp(start_payload(s), request, FALSE, "CHANGED")
    ELSE LET b == request.block1[1]
         IN  IF b.block_number = 0
             THEN handle_block(
                    [start_payload(s) EXCEPT !.last_block_number = Some(0)], request)
             ELSE IF s.last_block_number = None
             \* self.last_block_number + 1 with last_block_number None
             THEN [state |-> s, resp |-> "TypeError"]
             ELSE IF b.block_number # s.last_block_number[1] + 1
             THEN [state |-> s, resp |-> "REQUEST_ENTITY_INCOMPLETE"]
             ELSE handle_block(
                    [s EXCEPT !.last_block_number = Some(b.block_number)], request)

\* render_post / render_put of the Block1 resource on one request
Block1Request ==
    /\ Len(b1_log) < MaxB1Requests
    /\ \E snd \in B1Senders, fmt \in B1Formats, block1 \in B1BlockOptions,
          len \in B1PayloadLens :
         LET request == B1Request(snd, fmt, block1, len)
             r == handle_blockwise(B1State, request)
         IN  /\ last_block_number' = r.state.last_block_number
             /\ f' = r.state.f
             /\ open_sinks' = r.state.open_sinks
             /\ dest_file' = r.state.dest_file
             /\ total_bytes' = r.state.total_bytes
             /\ start_calls' = r.state.start_calls
             /\ end_calls' = r.state.end_calls
             /\ end_seen' = r.state.end_seen
             /\ b1_log' = Append(b1_log, [snd |-> snd, block1 |-> block1,
                                          len |-> len, resp |-> r.resp,
                                          opt |-> IF r.resp = "CONTINUE"
                                                  THEN Some(continue_option(request))
                                                  ELSE None])
             /\ UNCHANGED others_b1

NextBlock1 == Block1Request

(***************************************************************************)
(* Claims on the Block1 upload.                                            *)
(***************************************************************************)
\* the request handled by the step, and its answer
B1Handled == b1_log'[Len(b1_log')]

B1Step == Len(b1_log') = Len(b1_log) + 1

\* the handler's first check answers NOT_ACCEPTABLE exactly for a content
\* format that is neither OPAQUE nor TLV
B1FormatAccepted(entry) == entry.resp # "NOT_ACCEPTABLE"

\* a block N > 0 that is not last_block_number + 1, with an upload begun
B1OutOfSequence ==
    /\ B1Step
    /\ B1FormatAccepted(B1Handled)
    /\ B1Handled.block1 # None
    /\ B1Handled.block1[1].block_number > 0
    /\ last_block_number # None
    /\ B1Handled.block1[1].block_number # last_block_number[1] + 1

\* the blocks 0 and 1, with more set and of the block size, then block 3
B1Sequence013 ==
    /\ Len(b1_log) = 3
    /\ \A i \in 1..3 : b1_log[i].block1 # None /\ B1FormatAccepted(b1_log[i])
    /\ b1_log[1].block1[1].block_number = 0
    /\ b1_log[2].block1[1].block_number = 1
    /\ b1_log[3].block1[1].block_number = 3
    /\ \A i \in 1..2 : b1_log[i].block1[1].more /\ b1_log[i].resp # "NameError"

B1BlockWithoutSink ==
    /\ B1Step
    /\ B1FormatAccepted(B1Handled)
    /\ B1Handled.block1 # None
    /\ B1Handled.block1[1].block_number > 0
    /\ ~f

\* C26: a payload is appended only while the sink file is open: a block
\* N > 0 that arrives before any block 0 or after an upload was completed
\* is answered RequestEntityIncomplete and is not written.
C26_NoSinkNoAppend ==
    [][B1BlockWithoutSink
       => (B1Handled.resp = "REQUEST_ENTITY_INCOMPLETE" /\ dest_file' = dest_file)]_vars

\* the step handles a block with more set that is in sequence (block 0, or
\* the block after the last accepted one) and whose payload is not of the
\* block size
B1WrongSize ==
    /\ B1Step
    /\ B1FormatAccepted(B1Handled)
    /\ B1Handled.block1 # None
    /\ B1Handled.block1[1].more
    /\ \/ B1Handled.block1[1].block_number = 0
       \/ /\ last_block_number # None
          /\ B1Handled.block1[1].block_number = last_block_number[1] + 1
    /\ B1Handled.len # BlockSize(B1Handled.block1[1].size_exponent)

\* C27: a block with more set whose payload length differs from the block
\* size 1 << (szx + 4) is answered BadRequest, appends nothing to the sink
\* and does not advance the last accepted block number.
C27_WrongSizeRejected ==
    [][B1WrongSize
       => /\ B1Handled.resp = "BAD_REQUEST"
          /\ Len(dest_file') <= Len(dest_file)
          /\ last_block_number' = last_block_number]_vars

\* entry i of the log is a block 0 that opened the file for an upload that
\* goes on (more set, answered Continue)
B1Opened(i) ==
    /\ b1_log[i].block1 # None
    /\ b1_log[i].block1[1].block_number = 0
    /\ b1_log[i].resp = "CONTINUE"

\* the upload of sender snd was aborted: the block 0 that opened the file
\* last is another sender's, and came while an upload of snd was going on
B1Aborted(snd) ==
    \E i, j \in 1..Len(b1_log) :
        /\ i < j
        /\ B1Opened(i) /\ b1_log[i].snd = snd
        /\ B1Opened(j) /\ b1_log[j].snd # snd
        /\ \A k \in (i + 1)..Len(b1_log) :
             b1_log[k].snd = snd => b1_log[k].resp = "NOT_ACCEPTABLE"
        /\ \A k \in (j + 1)..Len(b1_log) : b1_log[k].resp = "NOT_ACCEPTABLE"

\* C25: when the blocks of two uploads to the resource interleave (the
\* block 0 of a second sender arrives while the first upload goes on), the
\* destination file holds blocks of one upload only: a block N > 0 of the
\* aborted upload is never appended to the file of the newer one.
C25_FileOfOneUpload ==
    [][(/\ B1Step
        /\ B1Handled.block1 # None
        /\ B1Handled.block1[1].block_number > 0
        /\ B1Aborted(B1Handled.snd))
       => dest_file' = dest_file]_vars

\* the step handles a block 0 while an upload is in progress (the sink of
\* an earlier block 0 is open)
B1Restart ==
    /\ B1Step
    /\ B1FormatAccepted(B1Handled)
    /\ B1Handled.block1 # None
    /\ B1Handled.block1[1].block_number = 0
    /\ f

\* the requests that start an upload: a block 0, or a write without a
\* Block1 option
B1Starts ==
    { i \in 1..Len(b1_log) :
        /\ B1FormatAccepted(b1_log[i])
        /\ (b1_log[i].block1 = None \/ b1_log[i].block1[1].block_number = 0) }

\* the requests from the last start on whose payload was accepted
B1AcceptedSinceStart ==
    IF B1Starts = {} THEN <<>>
    ELSE SelectSeq(SubSeq(b1_log, CHOOSE i \in B1Starts : \A k \in B1Starts : k <= i,
                          Len(b1_log)),
                   LAMBDA e : e.resp \in {"CONTINUE", "CHANGED"})

\* the file holds the payloads of these requests, in order, and nothing else
B1FileHolds(entries) ==
    /\ Len(dest_file) = Len(entries)
    /\ \A n \in 1..Len(entries) :
         /\ dest_file[n].snd = entries[n].snd
         /\ dest_file[n].blk = entries[n].block1

\* C35: a block 0 that arrives while an upload is in progress closes the
\* stale sink, reopens the destination file truncated and calls the start
\* hook once; at any time the file holds exactly the payloads accepted from
\* the last block 0 on, so that after the new upload completes it holds
\* nothing of the aborted one.
C35_Block0RestartsUpload ==
    /\ [][B1Restart =>
            /\ start_calls' = start_calls + 1
            /\ open_sinks' = (IF f' THEN 1 ELSE 0)
            /\ B1Handled.resp \in {"CONTINUE", "CHANGED"}
                 => (Len(dest_file') = 1 /\ dest_file'[1].blk = B1Handled.block1)
            /\ B1Handled.resp \notin {"CONTINUE", "CHANGED"} => dest_file' = <<>>]_vars
    /\ [](open_sinks <= 1 /\ B1FileHolds(B1AcceptedSinceStart))

\* the block 0 of an upload was accepted, a block 0 has restarted the
\* upload, and the block 1 that completes the new upload has been written
C35_Witness ==
    /\ Len(b1_log) = 3
    /\ \A i \in 1..3 : b1_log[i].block1 # None
    /\ b1_log[1].block1[1].block_number = 0 /\ b1_log[1].resp = "CONTINUE"
    /\ b1_log[2].block1[1].block_number = 0 /\ b1_log[2].resp = "CONTINUE"
    /\ b1_log[3].block1[1].block_number = 1 /\ b1_log[3].resp = "CHANGED"
    /\ Len(dest_file) = 2
    /\ dest_file[1].blk = b1_log[2].block1
    /\ start_calls = 2
    /\ end_calls = 1
    /\ open_sinks = 0
    /\ ~f

\* the step handles the next block of an upload: block 0, or the block
\* after the last accepted one while the sink is open; a block with more
\* set has the block size
B1NextBlock ==
    /\ B1Step
    /\ B1FormatAccepted(B1Handled)
    /\ B1Handled.block1 # None
    /\ \/ B1Handled.block1[1].block_number = 0
       \/ /\ f
          /\ last_block_number = Some(B1Handled.block1[1].block_number - 1)
    /\ B1Handled.block1[1].more
         => B1Handled.len = BlockSize(B1Handled.block1[1].size_exponent)

\* the step handles a write without Block1 option
B1OneShot ==
    /\ B1Step
    /\ B1FormatAccepted(B1Handled)
    /\ B1Handled.block1 = None

\* the step appended the payload of the request it handled to the sink
B1Appended ==
    /\ Len(dest_file') = (IF start_calls' # start_calls THEN 0 ELSE Len(dest_file)) + 1
    /\ \A n \in 1..(Len(dest_file') - 1) : dest_file'[n] = dest_file[n]
    /\ dest_file'[Len(dest_file')].snd = B1Handled.snd
    /\ dest_file'[Len(dest_file')].blk = B1Handled.block1

\* the step called end_cb once, after the payload was appended and the
\* sink closed
B1Ended ==
    /\ end_calls' = end_calls + 1
    /\ ~f'
    /\ end_seen' = Some([sink_open |-> FALSE, total_bytes |-> total_bytes',
                         blocks |-> Len(dest_file')])

\* C39: in an upload of the blocks 0..n in sequence every block with more
\* set is answered Continue with a Block1 option of the same block number
\* and the size exponent 6 and does not call the end hook; the final block
\* is answered Changed and calls the end hook once, after its payload was
\* appended and the sink closed; a write without Block1 option is start,
\* one payload, end and is answered Changed.
C39_InSequenceUpload ==
    [][/\ (B1NextBlock /\ B1Handled.block1[1].more)
         => /\ B1Handled.resp = "CONTINUE"
            /\ B1Handled.opt
                 = Some([block_number |-> B1Handled.block1[1].block_number,
                         more |-> TRUE, size_exponent |-> 6])
            /\ B1Appended
            /\ f'
            /\ end_calls' = end_calls /\ end_seen' = end_seen
       /\ (B1NextBlock /\ ~B1Handled.block1[1].more)
         => /\ B1Handled.resp = "CHANGED"
            /\ B1Handled.opt = None
            /\ B1Appended
            /\ B1Ended
       /\ B1OneShot
         => /\ B1Handled.resp = "CHANGED"
            /\ start_calls' = start_calls + 1
            /\ Len(dest_file') = 1
            /\ B1Appended
            /\ B1Ended]_vars

\* the blocks 0, 1 and 2 of one upload, the last without more
C39_Witness ==
    /\ Len(b1_log) = 3
    /\ \A i \in 1..3 : /\ b1_log[i].block1 # None
                       /\ b1_log[i].block1[1].block_number = i - 1
                       /\ b1_log[i].block1[1].more = (i < 3)
    /\ b1_log[1].resp = "CONTINUE" /\ b1_log[2].resp = "CONTINUE"
    /\ b1_log[2].opt = Some([block_number |-> 1, more |-> TRUE, size_exponent |-> 6])
    /\ b1_log[3].resp = "CHANGED"
    /\ Len(dest_file) = 3
    /\ start_calls = 1
    /\ end_calls = 1
    /\ end_seen = Some([sink_open |-> FALSE, total_bytes |-> total_bytes, blocks |-> 3])
    /\ ~f

(***************************************************************************)
(* lwm2m/client.py: bootstrap, registration and the registration task.     *)
(*                                                                         *)
(* reg_pc is where the client is:                                          *)
(*   "constructed"            __init__ has run, start() was not called     *)
(*   "bootstrap_request"      bootstrap_request awaits the response        *)
(*   "bootstrap_finish_wait"  client_bootstrap awaits bootstrap_finish_    *)
(*                            event                                        *)
(*   "task_scheduled"         start() has scheduled registration_task      *)
(*   "register"               register(False, False) awaits the response   *)
(*   "wait_for"               registration_task awaits the event or the    *)
(*                            timeout                                      *)
(*   "update"                 register(True, ...) awaits the response      *)
(*   "start_raised"           an exception has left start()                *)
(*   "task_raised"            an exception has ended registration_task     *)
(*   "stopped"                the client was stopped                       *)
(***************************************************************************)
\* the lifetime argument of the client, in seconds
LIFETIME == 3

\* the time up to which a behaviour is followed
MaxTime == 6

\* the number of registration messages one behaviour sends
MaxRegMessages == 3

\* the number of calls of start() on the client object
MaxRuns == 2

\* the number of topology changes in one behaviour
MaxSignals == 2

\* the links of the object instances the client has from its construction
FixedInstances == {"</3/0>"}

\* the link of the WLAN profile with instance id inst_id
WlanLinks == <<"</12/0>", "</12/1>", "</12/2>", "</12/3>">>

\* the location the server gives the registration
RdTokens == {"x1"}

\* Code.is_successful(): the 2.xx codes among the answers of the model
is_successful(code) == code \in {"CREATED", "CHANGED"}

\* the answers of the server to a registration and to an update
RegisterCodes == {"CREATED", "FORBIDDEN"}

UpdateCodes == {"CHANGED", "NOT_FOUND", "INTERNAL_SERVER_ERROR"}

\* the answers of the bootstrap server; "error" is an aiocoap error raised
\* by the request
BootstrapCodes == {"CHANGED", "BAD_REQUEST", "error"}

\* LwM2MClient.get_reg_links
get_reg_links == objects

\* the request LwM2MClient.register sends
register_request(is_update, update_objects) ==
    [path |-> IF is_update \/ update_objects THEN <<"rd", rd_resource[1]>> ELSE <<"rd">>,
     query |-> ~is_update,
     payload |-> IF update_objects \/ ~is_update THEN Some(get_reg_links) ELSE None,
     time |-> now,
     run |-> run_no]

\* LwM2MClient after __init__
RegConstructed(bootstrap) ==
    /\ reg_pc = "constructed"
    /\ bootstrap_configured = bootstrap
    /\ register_event = FALSE
    /\ bootstrap_finish_event = FALSE
    /\ rd_resource = None
    /\ objects = FixedInstances
    /\ site = {}
    /\ server_reg = None
    /\ now = 0
    /\ deadline = 0
    /\ reg_log = <<>>
    /\ reg_resp = "none"
    /\ run_no = 0
    /\ bs_answered = FALSE
    /\ bs_finished = FALSE
    /\ signals = 0
    /\ wlan_post = [op |-> "none", payload |-> <<>>, code |-> "none"]

\* LwM2MClient.start, up to its first await of a response: build_site, then
\* the bootstrap request or the scheduling of registration_task.  The
\* supervisor calls it on a new client and again after the client has
\* stopped or start() has raised.
Start ==
    /\ reg_pc \in {"constructed", "stopped", "start_raised"}
    /\ run_no < MaxRuns
    /\ run_no' = run_no + 1
    /\ site' = objects
    /\ reg_pc' = IF bootstrap_configured THEN "bootstrap_request" ELSE "task_scheduled"
    /\ bs_answered' = FALSE
    /\ bs_finished' = FALSE
    /\ reg_resp' = "none"
    /\ UNCHANGED <<bootstrap_configured, register_event, bootstrap_finish_event,
                   rd_resource, objects, server_reg, now, deadline, reg_log, signals, wlan_post>>
    /\ UNCHANGED others_reg

\* the response to the bootstrap request arrives: bootstrap_request, then
\* client_bootstrap up to the end of its wait for bootstrap_finish_event
BootstrapResponse ==
    /\ reg_pc = "bootstrap_request"
    /\ \E code \in BootstrapCodes :
         /\ reg_resp' = code
         /\ bs_answered' = (code = "CHANGED")
         /\ reg_pc' = IF code # "CHANGED" THEN "start_raised"
                      ELSE IF bootstrap_finish_event THEN "task_scheduled"
                      ELSE "bootstrap_finish_wait"
    /\ UNCHANGED <<bootstrap_configured, register_event, bootstrap_finish_event,
                   rd_resource, objects, site, server_reg, now, deadline, reg_log,
                   run_no, bs_finished, signals, wlan_post>>
    /\ UNCHANGED others_reg

\* LwM2MBootstrapFinish.render_post: a POST /bs arrives while the bootstrap
\* context serves the site
BootstrapFinish ==
    /\ reg_pc \in {"bootstrap_request", "bootstrap_finish_wait"}
    /\ ~bs_finished
    /\ bootstrap_finish_event' = TRUE
    /\ bs_finished' = bs_answered
    /\ reg_pc' = IF reg_pc = "bootstrap_finish_wait" THEN "task_scheduled" ELSE reg_pc
    /\ reg_resp' = "none"
    /\ UNCHANGED <<bootstrap_configured, register_event, rd_resource, objects, site,
                   server_reg, now, deadline, reg_log, run_no, bs_answered, signals, wlan_post>>
    /\ UNCHANGED others_reg

\* registration_task up to its first await: register(False, False) sends
\* the initial registration
RegistrationTask ==
    /\ reg_pc = "task_scheduled"
    /\ Len(reg_log) < MaxRegMessages
    /\ reg_log' = Append(reg_log, register_request(FALSE, FALSE))
    /\ reg_pc' = "register"
    /\ reg_resp' = "none"
    /\ UNCHANGED <<bootstrap_configured, register_event, bootstrap_finish_event,
                   rd_resource, objects, site, server_reg, now, deadline, run_no,
                   bs_answered, bs_finished, signals, wlan_post>>
    /\ UNCHANGED others_reg

\* the response to the initial registration arrives: the rest of
\* register(False, False), then registration_task up to its wait_for
RegisterResponse ==
    /\ reg_pc = "register"
    /\ \E code \in RegisterCodes, token \in RdTokens :
         /\ reg_resp' = code
         /\ IF is_successful(code)
            THEN /\ rd_resource' = Some(token)
                 /\ server_reg' = Some([token |-> token, expiry |-> now + LIFETIME])
                 /\ reg_pc' = "wait_for"
                 /\ deadline' = now + LIFETIME
            ELSE /\ reg_pc' = "task_raised"     \* BaseException
                 /\ UNCHANGED <<rd_resource, server_reg, deadline>>
    /\ UNCHANGED <<bootstrap_configured, register_event, bootstrap_finish_event,
                   objects, site, now, reg_log, run_no, bs_answered, bs_finished,
                   signals, wlan_post>>
    /\ UNCHANGED others_reg

\* the object instances of the WLAN profile object (IG60WLANProfileBase.instances)
wlan_instances == { n \in 0..(Len(WlanLinks) - 1) : WlanLinks[n + 1] \in objects }

\* IG60WLANProfileBase.render_post: the loop that finds the next instance id
next_inst_id ==
    IF wlan_instances = {} THEN 0
    ELSE (CHOOSE n \in wlan_instances : \A m \in wlan_instances : m <= n) + 1

\* the payloads of a POST /12: none, or a TLV with the SSID resource "ab"
WlanPayloads == {<<>>, <<194, 5, 97, 98>>}

\* the response of IG60WLANProfileBase.render_post: with a payload it calls
\* TlvDecoder.update_object(request, obj, Code.CREATED), and update_object
\* takes (request, obj_inst) only
wlan_post_response(payload) ==
    IF Len(payload) > 0 THEN "TypeError" ELSE "CREATED"

\* LwM2MClient.client_updated, called by notify_site_changed
ClientUpdated ==
    /\ register_event' = TRUE

\* IG60WLANProfileBase.render_post: a WLAN profile is created with the next
\* instance id, and notify_site_changed calls LwM2MClient.client_updated
WlanRenderPost ==
    /\ signals < MaxSignals
    /\ next_inst_id < Len(WlanLinks)
    /\ signals' = signals + 1
    /\ \E payload \in WlanPayloads :
         \E code \in {wlan_post_response(payload)} :
            /\ wlan_post' = [op |-> "POST", payload |-> payload, code |-> code]
            /\ IF code = "CREATED"
               THEN /\ objects' = objects \cup {WlanLinks[next_inst_id + 1]}
                    /\ ClientUpdated
               ELSE UNCHANGED <<objects, register_event>>
    /\ reg_resp' = "none"
    /\ UNCHANGED <<reg_pc, bootstrap_configured, bootstrap_finish_event, rd_resource,
                   site, server_reg, now, deadline, reg_log, run_no, bs_answered,
                   bs_finished>>
    /\ UNCHANGED others_reg

\* the WLAN profile instances a request resolves to: those build_site has
\* put in the site
wlan_site == { n \in 0..(Len(WlanLinks) - 1) : WlanLinks[n + 1] \in site }

\* IG60WLANProfile.render_delete and IG60WLANProfileBase.on_delete: the
\* instance the site resolves /12/n to is removed from the base object (if
\* it is still there), and nothing tells the client
WlanRenderDelete ==
    /\ signals < MaxSignals
    /\ signals' = signals + 1
    /\ \E n \in wlan_site :
         objects' = objects \ {WlanLinks[n + 1]}
    /\ wlan_post' = [op |-> "DELETE", payload |-> <<>>, code |-> "DELETED"]
    /\ reg_resp' = "none"
    /\ UNCHANGED <<reg_pc, bootstrap_configured, register_event, bootstrap_finish_event,
                   rd_resource, site, server_reg, now, deadline, reg_log, run_no,
                   bs_answered, bs_finished>>
    /\ UNCHANGED others_reg

\* registration_task: wait_for returns because register_event is set
EventSet ==
    /\ reg_pc = "wait_for"
    /\ register_event
    /\ Len(reg_log) < MaxRegMessages
    /\ register_event' = FALSE
    /\ site' = objects
    /\ reg_log' = Append(reg_log, register_request(TRUE, TRUE))
    /\ reg_pc' = "update"
    /\ reg_resp' = "none"
    /\ UNCHANGED <<bootstrap_configured, bootstrap_finish_event, rd_resource, objects,
                   server_reg, now, deadline, run_no, bs_answered, bs_finished, signals, wlan_post>>
    /\ UNCHANGED others_reg

\* registration_task: wait_for raises asyncio.TimeoutError after
\* self.lifetime seconds
Timeout ==
    /\ reg_pc = "wait_for"
    /\ now = deadline
    /\ Len(reg_log) < MaxRegMessages
    /\ reg_log' = Append(reg_log, register_request(TRUE, FALSE))
    /\ reg_pc' = "update"
    /\ reg_resp' = "none"
    /\ UNCHANGED <<bootstrap_configured, register_event, bootstrap_finish_event,
                   rd_resource, objects, site, server_reg, now, deadline, run_no,
                   bs_answered, bs_finished, signals, wlan_post>>
    /\ UNCHANGED others_reg

\* the response to a registration update arrives: the rest of
\* register(True, ...), then registration_task up to its wait_for.  A server
\* that answers NOT_FOUND holds no registration.
UpdateResponse ==
    /\ reg_pc = "update"
    /\ \E code \in UpdateCodes :
         /\ reg_resp' = code
         /\ server_reg' = IF code = "NOT_FOUND" \/ server_reg = None THEN None
                          ELSE IF code = "CHANGED"
                          THEN Some([server_reg[1] EXCEPT !.expiry = now + LIFETIME])
                          ELSE server_reg
         /\ IF is_successful(code)
            THEN reg_pc' = "wait_for" /\ deadline' = now + LIFETIME
            ELSE reg_pc' = "task_raised" /\ UNCHANGED deadline    \* BaseException
    /\ UNCHANGED <<bootstrap_configured, register_event, bootstrap_finish_event,
                   rd_resource, objects, site, now, reg_log, run_no, bs_answered,
                   bs_finished, signals, wlan_post>>
    /\ UNCHANGED others_reg

\* a second passes while the client awaits a response, an event or a
\* timeout; the event loop runs what is ready before time passes
Tick ==
    /\ now < MaxTime
    /\ reg_pc \in {"bootstrap_request", "bootstrap_finish_wait", "register", "wait_for",
                   "update"}
    /\ reg_pc = "wait_for" => (now < deadline /\ ~register_event)
    /\ now' = now + 1
    /\ reg_resp' = "none"
    /\ UNCHANGED <<reg_pc, bootstrap_configured, register_event, bootstrap_finish_event,
                   rd_resource, objects, site, server_reg, deadline, reg_log, run_no,
                   bs_answered, bs_finished, signals, wlan_post>>
    /\ UNCHANGED others_reg

\* the running client is stopped (by the supervisor's stop())
Stop ==
    /\ reg_pc \in {"bootstrap_request", "bootstrap_finish_wait", "task_scheduled",
                   "register", "wait_for", "update", "task_raised"}
    /\ reg_pc' = "stopped"
    /\ reg_resp' = "none"
    /\ UNCHANGED <<bootstrap_configured, register_event, bootstrap_finish_event,
                   rd_resource, objects, site, server_reg, now, deadline, reg_log,
                   run_no, bs_answered, bs_finished, signals, wlan_post>>
    /\ UNCHANGED others_reg

NextReg ==
    \/ Start
    \/ BootstrapResponse
    \/ BootstrapFinish
    \/ RegistrationTask
    \/ RegisterResponse
    \/ WlanRenderPost
    \/ WlanRenderDelete
    \/ EventSet
    \/ Timeout
    \/ UpdateResponse
    \/ Tick
    \/ Stop

(***************************************************************************)
(* Claims about bootstrap and registration.                                *)
(***************************************************************************)
\* the last message the client sent to the server
LastSent(log) == log[Len(log)]

\* this step handles a non-2.xx answer to a registration update
UpdateRejected ==
    /\ reg_pc = "update"
    /\ reg_resp' \in UpdateCodes
    /\ ~is_successful(reg_resp')

\* the server holds the client's registration and its lifetime has not
\* elapsed
Registered ==
    /\ server_reg # None
    /\ rd_resource = Some(server_reg[1].token)
    /\ now < server_reg[1].expiry

\* C4: when a registration update is answered with a non-2.xx code, the
\* registration driver sends a fresh initial registration (POST /rd with the
\* query and the links payload) and the refresh loop keeps running.
C4_FallbackToInitialRegistration ==
    [][UpdateRejected
       => (/\ reg_pc' = "register"
           /\ Len(reg_log') = Len(reg_log) + 1
           /\ LastSent(reg_log').path = <<"rd">>
           /\ LastSent(reg_log').query
           /\ LastSent(reg_log').payload = Some(objects'))]_vars

\* C5: while the client is registered no topology-change signal is lost:
\* a signal that was not yet followed by its update (register_event is
\* set) never finds the refresh task ended, so that the task will rebuild
\* the site and send the update.
C5_NoSignalLost ==
    (Registered /\ register_event) => reg_pc # "task_raised"

\* C8: with bootstrap configured, every /rd message of the current run was
\* sent after the bootstrap request of that run was answered Changed and a
\* POST /bs was received after that answer.
C8_BootstrapBeforeRegistration ==
    bootstrap_configured
        => \A i \in DOMAIN reg_log :
             reg_log[i].run = run_no => (bs_answered /\ bs_finished)

\* C10: with no topology change, the refresh task sends the registration
\* update lifetime-1 seconds after the previous registration message.
C10_UpdateBeforeLifetime ==
    [][(reg_pc = "wait_for" /\ reg_pc' = "update" /\ ~register_event)
       => LastSent(reg_log').time = LastSent(reg_log).time + LIFETIME - 1]_vars

\* C11: a POST /12 that carries a TLV payload with the SSID resource is
\* answered Created, adds the instance max(existing ids)+1 (0 if there is
\* none) to the tree and signals the registration task, so that the next
\* update lists the new instance.
C11_CreateWithPayload ==
    [][(wlan_post'.op = "POST" /\ signals' = signals + 1 /\ Len(wlan_post'.payload) > 0)
       => (/\ wlan_post'.code = "CREATED"
           /\ objects' = objects \cup {WlanLinks[next_inst_id + 1]}
           /\ register_event')]_vars

\* the links </O> of the registered objects that have no instance: the
\* WLAN profile object is registered by add_base_object whether or not it
\* has instances
ZeroInstanceLinks == IF wlan_instances = {} THEN {"</12>"} ELSE {}

\* the step sends a registration message with a payload
RegPayloadSent ==
    /\ Len(reg_log') = Len(reg_log) + 1
    /\ LastSent(reg_log').payload # None

\* C18: the payload of a registration message lists the link </O/I> of
\* every object instance of the tree, and the link </O> of every
\* registered object that has no instance.
C18_RegistrationLinks ==
    [][RegPayloadSent
       => LastSent(reg_log').payload[1] = objects \cup ZeroInstanceLinks]_vars

\* the step is a DELETE on a WLAN profile instance
WlanDeleted == wlan_post'.op = "DELETE" /\ signals' = signals + 1

\* C32: a DELETE on a WLAN profile instance /12/N is answered Deleted,
\* removes instance N from the tree and raises the topology-change signal,
\* so that the registration task rebuilds the site without /12/N and sends
\* an update whose links omit </12/N>.
C32_DeleteSignalsTopologyChange ==
    [][WlanDeleted
       => (/\ wlan_post'.code = "DELETED"
           /\ \E n \in wlan_site : objects' = objects \ {WlanLinks[n + 1]}
           /\ register_event')]_vars

(***************************************************************************)
(* ig60_lwm2m_client.py, ig60_bearer.py: the bearer supervisor.            *)
(*                                                                         *)
(* run_pc is where IG60LwM2MClient.run is: "constructed" before it is      *)
(* called, "started" while it awaits start() on candidates[1], "stopping"  *)
(* when the running client was told to stop, "returned" after its return,  *)
(* "raised" when an exception has left it.                                 *)
(* An interface has one connection with one address, so that a candidate   *)
(* address is named by its interface.                                      *)
(***************************************************************************)
RET_SUCCESS == 0

\* the values of errno the supervisor returns
ENONET == 64

ENOPKG == 65

EINTR == 4

EAGAIN == 11

\* lwm2m/bearer.py: the values of the preferred-bearer resource
LWM2M_BEARER_AUTO == 0

LWM2M_BEARER_3GPP_LTE == 4

LWM2M_BEARER_WLAN == 6

LWM2M_BEARER_ETHERNET == 7

LWM2M_BEARER_RESOURCE_PREFERRED_BEARER == 0

NM_IFACE_ETHERNET == "eth"

NM_IFACE_WLAN == "wlan"

NM_IFACE_LTE == "usb"

\* the number of steps of the supervisor and of requests to object 13
MaxRunOps == 6

\* the interfaces that come and go
Ifaces == {NM_IFACE_ETHERNET, NM_IFACE_WLAN}

\* the interface a bearer value names, if any
bearer_interface(value) ==
    IF value.t # "int" THEN <<>>
    ELSE IF value.v = LWM2M_BEARER_ETHERNET THEN <<NM_IFACE_ETHERNET>>
    ELSE IF value.v = LWM2M_BEARER_WLAN THEN <<NM_IFACE_WLAN>>
    ELSE IF value.v = LWM2M_BEARER_3GPP_LTE THEN <<NM_IFACE_LTE>>
    ELSE <<>>

\* the loop of IG60DefaultBearerResource.get_interfaces over the instances
\* with the ids insts, in ascending order
RECURSIVE get_interfaces_loop(_, _, _)
get_interfaces_loop(instances, insts, interfaces) ==
    IF insts = {} THEN interfaces
    ELSE Bind(CHOOSE i \in insts : \A k \in insts : i <= k, LAMBDA res_inst :
         Bind(instances[InstIndex(instances, res_inst)].value, LAMBDA value :
           IF value.t = "int" /\ value.v = LWM2M_BEARER_AUTO
           THEN <<NM_IFACE_ETHERNET, NM_IFACE_WLAN, NM_IFACE_LTE>>
           ELSE get_interfaces_loop(instances, insts \ {res_inst},
                                    interfaces \o bearer_interface(value))))

\* IG60DefaultBearerResource.get_interfaces
get_interfaces(instances) ==
    get_interfaces_loop(instances, {instances[j].inst : j \in DOMAIN instances}, <<>>)

\* the addresses the for loops of run visit, in order
RECURSIVE match_conns(_, _)
match_conns(interfaces, cs) ==
    IF interfaces = <<>> THEN <<>>
    ELSE (IF interfaces[1] \in cs THEN <<interfaces[1]>> ELSE <<>>)
         \o match_conns(Tail(interfaces), cs)

\* IG60LwM2MClient.run from the top of its while loop to its next await:
\* with no candidate it returns ENONET, else it starts the client on the
\* first one
run_pass(instances, cs) ==
    Bind(match_conns(get_interfaces(instances), cs), LAMBDA cands :
      IF cands = <<>>
      THEN [pc |-> "returned", result |-> Some(ENONET), candidates |-> <<>>,
            bound_to |-> bound_to]
      ELSE [pc |-> "started", result |-> Some(RET_SUCCESS), candidates |-> cands,
            bound_to |-> Some(cands[1])])

\* IG60Network.add_special_route_for_iface: a route hint for iface is
\* installed
add_special_route_for_iface(routes, iface) == Append(routes, iface)

\* IG60Network.delete_special_route: the route hint installed last is
\* removed
delete_special_route(routes) ==
    IF routes = <<>> THEN <<>> ELSE SubSeq(routes, 1, Len(routes) - 1)

\* the route is deleted in the except clauses of the aiocoap errors only
run_finally_of_errors(exc, routes) ==
    IF exc = "aiocoap.error.Error" THEN delete_special_route(routes) ELSE routes

\* the finally clause of the attempt, which exc (or "returned") leaves
run_finally(exc, routes) == delete_special_route(routes)

\* the supervisor goes on as r says after the routes were left as given:
\* an attempt that begins installs the route of its interface first
run_attempt(r, routes) ==
    r @@ [routes |-> IF r.pc = "started"
                     THEN add_special_route_for_iface(routes, r.candidates[1])
                     ELSE routes]

\* a step of the supervisor, or a request to a path of the site
RunReq(op, path) == [op |-> op, path |-> path]

\* the supervisor goes on as r says
RunApply(req, resp, r) ==
    /\ run_ops < MaxRunOps
    /\ run_ops' = run_ops + 1
    /\ run_req' = req
    /\ run_resp' = resp
    /\ run_pc' = r.pc
    /\ result' = r.result
    /\ candidates' = r.candidates
    /\ bound_to' = r.bound_to
    /\ sw_update_state' = IF "sw" \in DOMAIN r THEN r.sw ELSE sw_update_state
    /\ sw_update_result' = IF "sw_result" \in DOMAIN r THEN r.sw_result
                           ELSE sw_update_result
    /\ sw_unpack_tasks' = IF "sw_tasks" \in DOMAIN r THEN r.sw_tasks
                          ELSE sw_unpack_tasks
    /\ special_routes' = IF "routes" \in DOMAIN r THEN r.routes ELSE special_routes
    /\ UNCHANGED others_run

\* the supervisor stays where it is
RunStays == [pc |-> run_pc, result |-> result, candidates |-> candidates,
             bound_to |-> bound_to]

\* IG60LwM2MClient.run is called
Run ==
    /\ run_pc = "constructed"
    /\ \E r \in {run_attempt(run_pass(bearer, conns), special_routes)} :
         RunApply(RunReq("run", <<>>), "none", r)
    /\ UNCHANGED <<bearer, conns>>

\* start() raises an aiocoap error: the for loops go on to the next
\* address, and after the last one the while loop goes round again
StartFailed ==
    /\ run_pc = "started"
    /\ \E r \in {IF Len(candidates) > 1
                 THEN [pc |-> "started", result |-> Some(RET_SUCCESS),
                       candidates |-> Tail(candidates),
                       bound_to |-> Some(candidates[2])]
                 ELSE run_pass(bearer, conns)} :
         RunApply(RunReq("start", <<>>), "aiocoap.error.Error",
                  run_attempt(r, run_finally("aiocoap.error.Error", special_routes)))
    /\ UNCHANGED <<bearer, conns>>

\* what start() raises apart from the aiocoap errors: the cancellation of
\* the task, an Exception, and the BaseException that bootstrap_request
\* raises when the bootstrap server answers with a code other than Changed
StartExceptions == {"CancelledError", "Exception", "BaseException"}

\* the except clauses of the while loop of run: run after exc has reached
\* them
run_except(exc) ==
    CASE exc = "CancelledError" -> [RunStays EXCEPT !.pc = "returned", !.result = Some(EINTR)]
      [] exc = "Exception" -> [RunStays EXCEPT !.pc = "returned", !.result = Some(EAGAIN)]
      [] OTHER -> [RunStays EXCEPT !.pc = "raised"]

\* start() raises something else
StartRaised ==
    /\ run_pc = "started"
    /\ \E exc \in StartExceptions :
         RunApply(RunReq("start", <<>>), exc,
                  run_attempt(run_except(exc), run_finally(exc, special_routes)))
    /\ UNCHANGED <<bearer, conns>>

\* start() returns after the client was stopped: BearerUpdated starts the
\* next pass, ClientUpdated ends the while loop
StartReturned ==
    /\ run_pc = "stopping"
    /\ \E r \in {IF result = Some(RET_SUCCESS) THEN run_pass(bearer, conns)
                 ELSE [RunStays EXCEPT !.pc = "returned"]} :
         RunApply(RunReq("start", <<>>), "returned",
                  run_attempt(r, run_finally("returned", special_routes)))
    /\ UNCHANGED <<bearer, conns>>

\* IG60BearerObject.resources
BearerResources(instances) ==
    <<Resource(LWM2M_BEARER_RESOURCE_PREFERRED_BEARER, "multi", "int", instances,
               "none", TRUE)>>

\* the resource instance at position j, as update_resource_value sees it
BearerInstance(instances, j) ==
    <<Resource(LWM2M_BEARER_RESOURCE_PREFERRED_BEARER, "value", "int",
               instances[j].value, "none", FALSE)>>

\* the bearer values a server writes
BearerValues == {PyValue("int", LWM2M_BEARER_ETHERNET), PyValue("int", LWM2M_BEARER_WLAN)}

\* the payloads of a write to a resource instance of the preferred bearer
BearerInstPayloads ==
    { encode_tlv(t, LWM2M_BEARER_RESOURCE_PREFERRED_BEARER, value).v :
        t \in {TlvType_RESOURCE_VALUE, TlvType_RESOURCE_INSTANCE},
        value \in BearerValues }

\* the payloads of a write to the bearer object instance
BearerObjPayloads ==
    {<<>>} \cup
    { pack_multi_resource(BearerResources(instances)[1]).v :
        instances \in
          { <<ResInst(0, PyValue("int", LWM2M_BEARER_ETHERNET), TRUE)>>,
            <<ResInst(0, PyValue("int", LWM2M_BEARER_WLAN), TRUE),
              ResInst(1, PyValue("int", LWM2M_BEARER_ETHERNET), TRUE)>>,
            <<ResInst(0, PyValue("int", LWM2M_BEARER_WLAN), TRUE),
              ResInst(1, PyValue("int", LWM2M_BEARER_AUTO), TRUE)>> } }

\* LwM2MResourceInst.render_put on /13/0/0/<inst>
WriteBearerInst ==
    /\ run_pc = "started"
    /\ \E j \in DOMAIN bearer, payload \in BearerInstPayloads :
         \E o \in {update_resource_value(BearerInstance(bearer, j), 1,
                     ObjRequest("res_write", LWM2M_BEARER_RESOURCE_PREFERRED_BEARER,
                                MediaType_TLV, payload))} :
             /\ bearer' = [bearer EXCEPT ![j].value = o.resources[1].value]
             /\ RunApply(RunReq("PUT", <<13, 0, 0, bearer[j].inst>>), o.resp, RunStays)
    /\ UNCHANGED conns

\* IG60LwM2MClient.set_bearer: stop() makes start() return
set_bearer == [RunStays EXCEPT !.pc = "stopping"]

\* LwM2MObjectInst.render_put on /13/0: IG60DefaultBearerResource.update
\* calls set_bearer_cb after it has updated the instances
WriteBearerObject ==
    /\ run_pc = "started"
    /\ \E payload \in BearerObjPayloads :
         \E request \in {ObjRequest("obj_write", 0, MediaType_TLV, payload)} :
           \E d \in {decode_resources(BearerResources(bearer), payload, <<>>)},
              o \in {update_object(BearerResources(bearer), request)} :
               /\ bearer' = o.resources[1].value
               /\ RunApply(RunReq("PUT", <<13, 0>>), o.resp,
                           IF /\ o.resp = "CHANGED"
                              /\ d.ok
                              /\ \E k \in DOMAIN d.v :
                                   d.v[k].id = LWM2M_BEARER_RESOURCE_PREFERRED_BEARER
                           THEN set_bearer ELSE RunStays)
    /\ UNCHANGED conns

\* IG60LwM2MClient.sw_install without the assignment of its result
sw_install_without_result == [RunStays EXCEPT !.pc = "stopping"]

\* IG60LwM2MClient.sw_install: the result is ENOPKG, and stop() makes
\* start() return
sw_install == [RunStays EXCEPT !.pc = "stopping", !.result = Some(ENOPKG)]

\* IG60SWManagementObject.update_block_end: the software package has been
\* pushed to /9/0/2; the state is DOWNLOADED and an unpack_verify_update
\* task is created
sw_update_block_end ==
    /\ run_pc = "started"
    /\ RunApply(RunReq("update_block_end", <<>>), "CHANGED",
                [pc |-> run_pc, result |-> result, candidates |-> candidates,
                 bound_to |-> bound_to, sw |-> "DOWNLOADED",
                 sw_tasks |-> sw_unpack_tasks + 1])
    /\ UNCHANGED <<bearer, conns>>

\* what the tar and sha256sum of unpack_verify_update do with the package
\* that was downloaded: both succeed, or one of them fails
\* (subprocess.CalledProcessError)
UnpackOutcomes == {"verified", "CalledProcessError"}

\* the task IG60SWManagementObject.unpack_verify_update runs: when the
\* package is extracted and verified it reports DELIVERED and VERIFIED,
\* when a command fails its except clause logs and returns False
unpack_verify_update ==
    /\ run_pc = "started"
    /\ sw_unpack_tasks > 0
    /\ \E outcome \in UnpackOutcomes :
         RunApply(RunReq("unpack_verify_update", <<>>), outcome,
                  [pc |-> run_pc, result |-> result, candidates |-> candidates,
                   bound_to |-> bound_to,
                   sw |-> IF outcome = "verified" THEN "DELIVERED"
                          ELSE sw_update_state,
                   sw_result |-> IF outcome = "verified" THEN "VERIFIED"
                                 ELSE sw_update_result,
                   sw_tasks |-> sw_unpack_tasks - 1])
    /\ UNCHANGED <<bearer, conns>>

\* POST /9/0/4: IG60SWManagementObject.exec_install
exec_install ==
    /\ run_pc = "started"
    /\ RunApply(RunReq("exec_install", <<>>), "CHANGED",
                [pc |-> run_pc, result |-> result, candidates |-> candidates,
                 bound_to |-> bound_to,
                 sw |-> IF sw_update_state = "DELIVERED" THEN "INSTALLED"
                        ELSE sw_update_state,
                 sw_result |-> IF sw_update_state = "DELIVERED" THEN "INSTALLED"
                               ELSE sw_update_result])
    /\ UNCHANGED <<bearer, conns>>

\* POST /9/0/6: IG60SWManagementObject.exec_activate calls activate_cb,
\* which is IG60LwM2MClient.sw_install
exec_activate ==
    /\ run_pc = "started"
    /\ RunApply(RunReq("exec_activate", <<>>), "CHANGED",
                IF sw_update_state = "INSTALLED" THEN sw_install ELSE RunStays)
    /\ UNCHANGED <<bearer, conns>>

\* a connection appears or goes away
ConnsChange ==
    /\ run_pc \in {"constructed", "started", "stopping"}
    /\ \E cs \in SUBSET Ifaces :
         /\ cs # conns
         /\ conns' = cs
    /\ RunApply(RunReq("conns", <<>>), "none", RunStays)
    /\ UNCHANGED bearer

NextRun ==
    \/ Run
    \/ StartFailed
    \/ StartRaised
    \/ StartReturned
    \/ WriteBearerInst
    \/ WriteBearerObject
    \/ sw_update_block_end
    \/ unpack_verify_update
    \/ exec_install
    \/ exec_activate
    \/ ConnsChange

(***************************************************************************)
(* Claims about the bearer supervisor.                                     *)
(***************************************************************************)
\* C6: when start() fails with a protocol error on the last candidate
\* address of a pass (the addresses before it have failed the same way),
\* run returns ENONET.
C6_ExhaustedReturnsENONET ==
    [][(/\ run_pc = "started"
        /\ Len(candidates) = 1
        /\ run_ops' = run_ops + 1
        /\ run_req' = RunReq("start", <<>>)
        /\ run_resp' = "aiocoap.error.Error")
       => (run_pc' = "returned" /\ result' = Some(ENONET))]_vars

\* C7: a write of a bearer value to /13/0/0/0 that is answered Changed
\* stops the running client.
C7_BearerWriteStopsClient ==
    [][(/\ run_pc = "started"
        /\ run_ops' = run_ops + 1
        /\ run_req' = RunReq("PUT", <<13, 0, 0, 0>>)
        /\ run_resp' = "CHANGED")
       => run_pc' = "stopping"]_vars

\* the step is start() raising exc into run
StartRaises(exc) ==
    /\ run_pc = "started"
    /\ run_ops' = run_ops + 1
    /\ run_req' = RunReq("start", <<>>)
    /\ run_resp' = exc

\* C13: every failure raised inside the loop of run, the failure of the
\* bootstrap request included, ends run with a returned status: EINTR for a
\* cancellation, EAGAIN for any other failure.  No exception leaves run.
C13_NoExceptionEscapesRun ==
    [][(\E exc \in StartExceptions : StartRaises(exc))
       => (/\ run_pc' = "returned"
           /\ result' = IF StartRaises("CancelledError")
                         THEN Some(EINTR) ELSE Some(EAGAIN))]_vars

\* the supervisor goes on with a connection attempt: the one that failed
\* again, or the one on the next candidate address
RunAttemptsAgain ==
    /\ run_pc' = "started"
    /\ \/ (candidates' = candidates /\ bound_to' = bound_to)
       \/ (Len(candidates) > 1 /\ candidates' = Tail(candidates)
                               /\ bound_to' = Some(candidates[2]))

\* C31: when the bootstrap request is answered with a code other than
\* Changed, the failure reaches the supervisor, which makes another
\* attempt on the same address or moves on to the next candidate, or, on
\* the last candidate of the pass, to the next pass.
C31_FailureRetriedThenNextAddress ==
    [][StartRaises("BaseException")
       => \/ RunAttemptsAgain
          \/ (Len(candidates) = 1 /\ run_pc' \in {"started", "returned"})]_vars

\* the step is the unpack_verify_update task running in state DOWNLOADED
SwUnpackStep ==
    /\ sw_update_state = "DOWNLOADED"
    /\ run_ops' = run_ops + 1
    /\ run_req' = RunReq("unpack_verify_update", <<>>)

\* the update results that report no error
SwResultsWithoutError == {"INITIAL", "VERIFIED", "INSTALLED"}

\* C34: the unpack-and-verify step that follows DOWNLOADED ends either in
\* state DELIVERED with result VERIFIED or, when the extraction or the
\* checksum fails, in state INITIAL with an error result: it never leaves
\* the state DOWNLOADED.
C34_UnpackLeavesDownloaded ==
    [][SwUnpackStep
       => \/ (sw_update_state' = "DELIVERED" /\ sw_update_result' = "VERIFIED")
          \/ (/\ run_resp' # "verified"
              /\ sw_update_state' = "INITIAL"
              /\ sw_update_result' \notin SwResultsWithoutError)]_vars

\* the preferred bearers in ascending order of their resource-instance
\* ids, every auto among them standing for ethernet, wlan, lte
RECURSIVE PreferenceOrder(_, _)
PreferenceOrder(instances, insts) ==
    IF insts = {} THEN <<>>
    ELSE Bind(CHOOSE i \in insts : \A k \in insts : i <= k, LAMBDA res_inst :
         Bind(instances[InstIndex(instances, res_inst)].value, LAMBDA value :
           (IF value.t = "int" /\ value.v = LWM2M_BEARER_AUTO
            THEN <<NM_IFACE_ETHERNET, NM_IFACE_WLAN, NM_IFACE_LTE>>
            ELSE bearer_interface(value))
           \o PreferenceOrder(instances, insts \ {res_inst})))

\* the addresses of a list in the order of their first attempts
RECURSIVE FirstAttempts(_)
FirstAttempts(addrs) ==
    IF addrs = <<>> THEN <<>>
    ELSE Bind(FirstAttempts(SubSeq(addrs, 1, Len(addrs) - 1)), LAMBDA before :
           IF \E k \in DOMAIN before : before[k] = addrs[Len(addrs)]
           THEN before ELSE Append(before, addrs[Len(addrs)]))

\* a step of run that begins a pass over the candidates
PassBegins ==
    /\ run_ops' = run_ops + 1
    /\ run_req'.op \in {"run", "start"}
    /\ \/ run_pc = "constructed"
       \/ (run_pc = "stopping" /\ result = Some(RET_SUCCESS))
       \/ (run_pc = "started" /\ run_resp' = "aiocoap.error.Error"
                              /\ Len(candidates) = 1)

\* a step of run after start() failed on a candidate that is not the last
NextCandidate ==
    /\ run_ops' = run_ops + 1
    /\ run_req'.op = "start"
    /\ run_pc = "started"
    /\ run_resp' = "aiocoap.error.Error"
    /\ Len(candidates) > 1

\* C38: a pass attempts the addresses in preference order: the bearers by
\* ascending resource-instance id, every auto standing for ethernet, wlan,
\* lte, each with its matching connections, so that no address of a later
\* bearer is first attempted before those of an earlier one; after a
\* protocol error the next attempt is on the next address of that order.
C38_AttemptsInPreferenceOrder ==
    [][/\ PassBegins
         => FirstAttempts(candidates')
              = FirstAttempts(match_conns(PreferenceOrder(bearer,
                                {bearer[j].inst : j \in DOMAIN bearer}), conns))
       /\ NextCandidate
         => (candidates' = Tail(candidates) /\ bound_to' = Some(candidates'[1]))]_vars

\* an attempt is going on: run awaits start() on an address
AttemptGoingOn == run_pc \in {"started", "stopping"}

MaxFileUnits == 34

\* the size exponents of the resource
B2SizeExponents == {0, 1}

\* what a file is a repetition of: the UTF-8 bytes of "a", of U+00E9 and
\* of a carriage return and line feed
B2Units == {<<97>>, <<195, 169>>, <<13, 10>>}

\* n times the bytes of unit
Repeat(unit, n) ==
    [i \in 1..(n * Len(unit)) |-> unit[((i - 1) % Len(unit)) + 1]]

\* files of UTF-8 text
B2Files == { Repeat(unit, n) : unit \in B2Units, n \in 0..MaxFileUnits }

\* the number of bytes of the UTF-8 character that starts with byte b
utf8_len(b) == IF b < 192 THEN 1 ELSE IF b < 224 THEN 2 ELSE IF b < 240 THEN 3 ELSE 4

\* self.f.read(n) of a file opened with open(filename, 'r'), from the byte
\* offset off: the characters read and the offset after them.  A carriage
\* return, with the line feed after it if there is one, is read as one
\* line feed.
RECURSIVE text_read(_, _, _)
text_read(bs, off, n) ==
    IF n = 0 \/ off >= Len(bs) THEN [chars |-> <<>>, off |-> off]
    ELSE IF bs[off + 1] = 13
    THEN Bind(text_read(bs, IF off + 1 < Len(bs) /\ bs[off + 2] = 10
                            THEN off + 2 ELSE off + 1, n - 1),
              LAMBDA rest : [chars |-> <<10>> \o rest.chars, off |-> rest.off])
    ELSE Bind(text_read(bs, off + utf8_len(bs[off + 1]), n - 1),
              LAMBDA rest :
                [chars |-> utf8_decode(PySlice(bs, off, off + utf8_len(bs[off + 1])))
                             \o rest.chars,
                 off |-> rest.off])

Block2Option(block_number, more, size_exponent) ==
    [block_number |-> block_number, more |-> more, size_exponent |-> size_exponent]

\* the resource as a request finds it and leaves it
B2State == [f |-> b2_f, exists |-> b2_exists, open |-> b2_open]

\* LwM2MBlock2FileResource.start_payload opens the file and keeps no
\* account of a file object that self.f held; IG60JournaldLogResource.
\* start_payload writes the log to the file first, which creates it
b2_start_payload(s) ==
    [s EXCEPT !.f = Some(0), !.exists = TRUE, !.open = s.open + 1]

\* end_payload: LwM2MBlock2FileResource closes self.f;
\* IG60JournaldLogResource removes the file and leaves self.f as it is
b2_end_payload(s) ==
    IF b2_journald
    THEN IF s.exists THEN Ok([s EXCEPT !.exists = FALSE])
         ELSE Raise("FileNotFoundError")
    ELSE Ok([s EXCEPT !.f = None, !.open = s.open - 1])

\* the response to a request and the resource after it
B2Response(code, payload, block2, s) ==
    [code |-> code, payload |-> payload, block2 |-> block2, state |-> s]

\* LwM2MBlock2FileResource.handle_request with self.f open at the byte
\* offset s.f[1]
handle_request(s, block2) ==
    Bind(IF block2 # None THEN block2[1].size_exponent ELSE resp_sz_exp, LAMBDA sz_exp :
    Bind(Shl1(sz_exp + 4), LAMBDA max_len :
    Bind(text_read(file_contents, s.f[1], max_len), LAMBDA read :
    Bind(utf8_encode(read.chars), LAMBDA payload :
      IF Len(payload) < max_len
      THEN Bind(b2_end_payload([s EXCEPT !.f = Some(read.off)]), LAMBDA ended :
             IF ended.ok
             THEN B2Response("CONTENT", payload,
                             IF block2 # None
                             THEN Some(Block2Option(block2[1].block_number, FALSE, sz_exp))
                             ELSE None,
                             ended.v)
             ELSE B2Response(ended.exc, <<>>, None, [s EXCEPT !.f = Some(read.off)]))
      ELSE B2Response("CONTENT", payload,
                      Some(Block2Option(IF block2 # None THEN block2[1].block_number
                                        ELSE 0, TRUE, sz_exp)),
                      [s EXCEPT !.f = Some(read.off)])))))

\* start_payload was called: self.f is set
B2Started == \E i \in 1..Len(b2_log) : b2_log[i].req = None

\* LwM2MBlock2FileResource.render_get: a request without Block2 option
\* starts a transfer; a request with one reads on from where self.f is,
\* which raises when self.f was never set or is closed
b2_render_get(s, block2) ==
    IF block2 = None THEN handle_request(b2_start_payload(s), block2)
    ELSE IF s.f # None THEN handle_request(s, block2)
    ELSE B2Response(IF B2Started THEN "ValueError" ELSE "AttributeError", <<>>, None, s)

\* the download goes on with the response r to the request of client
B2Apply(client, req, r) ==
    /\ b2_f' = r.state.f
    /\ b2_exists' = r.state.exists
    /\ b2_open' = r.state.open
    /\ b2_log' = Append(b2_log, [client |-> client, req |-> req, code |-> r.code,
                                 payload |-> r.payload, block2 |-> r.block2])
    /\ UNCHANGED <<file_contents, resp_sz_exp, b2_journald>>
    /\ UNCHANGED others_b2

\* LwM2MBlock2FileResource.render_get of the first request, which has no
\* Block2 option: start_payload, then handle_request
Block2Initial ==
    /\ b2_log = <<>>
    /\ \E r \in {b2_render_get(B2State, None)} : B2Apply("A", None, r)

\* LwM2MBlock2FileResource.render_get of the request for the next block,
\* after a response that had more set
Block2Next ==
    /\ b2_log # <<>>
    /\ b2_f # None
    /\ \E last \in {b2_log[Len(b2_log)].block2} :
         /\ last # None
         /\ last[1].more
         /\ \E req \in {Some(Block2Option(Len(b2_log), FALSE, last[1].size_exponent))} :
              \E r \in {b2_render_get(B2State, req)} : B2Apply("A", req, r)

NextBlock2 ==
    \/ Block2Initial
    \/ Block2Next

\* the requests handled in one run of the shared download
MaxB2Requests == 3

\* the clients of the resource
B2Clients == {"A", "B"}

\* the Block2 options of the requests: none, or block N at the resource's
\* size exponent
B2Requests ==
    {None} \cup { Some(Block2Option(n, FALSE, resp_sz_exp)) : n \in 0..2 }

\* files of ASCII text whose blocks of 16 bytes all differ
B2SharedFiles == { Repeat(<<97, 98, 99>>, n) : n \in {5, 11, 16} }

\* LwM2MBlock2FileResource.render_get of any GET of any client: the
\* resource keeps one self.f, whoever sent the request
Block2Get ==
    /\ Len(b2_log) < MaxB2Requests
    /\ \E client \in B2Clients, req \in B2Requests :
         \E r \in {b2_render_get(B2State, req)} : B2Apply(client, req, r)

NextBlock2Shared == Block2Get

(***************************************************************************)
(* Claims about the Block2 download.                                       *)
(***************************************************************************)
\* the download is complete
B2Done ==
    /\ b2_log # <<>>
    /\ (b2_log[Len(b2_log)].block2 # None => ~b2_log[Len(b2_log)].block2[1].more)

RECURSIVE B2Payloads(_)
B2Payloads(log) ==
    IF log = <<>> THEN <<>> ELSE log[1].payload \o B2Payloads(Tail(log))

\* C9: the blocks of a complete download are numbered 0, 1, 2, ..., their
\* payloads concatenate to the file contents, every block but the last has
\* more set and exactly B = 1 << (szx+4) bytes, and the last has more
\* clear and the remaining bytes.
C9_Block2Download ==
    B2Done =>
      /\ B2Payloads(b2_log) = file_contents
      /\ \A i \in 1..Len(b2_log) :
           /\ b2_log[i].block2 # None =>
                /\ b2_log[i].block2[1].block_number = i - 1
                /\ b2_log[i].block2[1].more = (i < Len(b2_log))
           /\ i < Len(b2_log) => /\ b2_log[i].block2 # None
                                 /\ Len(b2_log[i].payload) = Shl1(resp_sz_exp + 4)
           /\ i = Len(b2_log) =>
                Len(b2_log[i].payload)
                  = Len(file_contents) - (Len(b2_log) - 1) * Shl1(resp_sz_exp + 4)

\* a request is answered with the last block of the file: more clear, or
\* no Block2 option at all when the whole file fits the first response
B2LastReply ==
    /\ Len(b2_log') = Len(b2_log) + 1
    /\ b2_log'[Len(b2_log')].code = "CONTENT"
    /\ (b2_log'[Len(b2_log')].block2 # None => ~b2_log'[Len(b2_log')].block2[1].more)

\* C36: whenever a Block2 download replies with its last block, the file
\* object opened for the transfer is closed: no file object stays open,
\* for the plain file resource and for the journald log resource alike.
C36_LastBlockClosesHandle ==
    [][B2LastReply => (b2_f' = None /\ b2_open' = 0)]_vars

\* the bytes [n * B, (n + 1) * B) of the file, B = 1 << (sz_exp + 4)
B2BlockOfFile(n, sz_exp) ==
    SubSeq(file_contents, n * Shl1(sz_exp + 4) + 1,
           IF (n + 1) * Shl1(sz_exp + 4) < Len(file_contents)
           THEN (n + 1) * Shl1(sz_exp + 4) ELSE Len(file_contents))

\* C37: the payload of a Block2 response labelled with block number N is
\* the bytes [N*B, (N+1)*B) of the file, whatever requests of whichever
\* client came before it: repeated ones and those of a second client too.
C37_PayloadIsBlockOfFile ==
    \A i \in 1..Len(b2_log) :
      (b2_log[i].code = "CONTENT" /\ b2_log[i].block2 # None)
        => b2_log[i].payload
             = B2BlockOfFile(b2_log[i].block2[1].block_number,
                             b2_log[i].block2[1].size_exponent)

(***************************************************************************)
(* lwm2m/tlv.py: encode_tlv followed by decode_tlv and decode_value.       *)
(***************************************************************************)
\* the largest length of an opaque value
MaxOpaqueLen == 65536

\* the kinds of TLV
TlvKinds == {TlvType_OBJECT_INSTANCE, TlvType_RESOURCE_INSTANCE,
             TlvType_MULTIPLE_RESOURCE, TlvType_RESOURCE_VALUE}

\* the identifiers, on both sides of 256
TlvIds == {0, 255, 256, 65535}

\* the value of type t and of size or magnitude n: the integer n, the
\* boolean n # 0, the string of n letters, the n opaque bytes
TlvValue(t, n) ==
    CASE t = "int" -> PyValue("int", n)
      [] t = "bool" -> PyValue("bool", n # 0)
      [] t = "str" -> PyValue("str", Repeat(<<97>>, n))
      [] t = "bytes" -> PyValue("bytes", Repeat(<<171>>, n))

TlvInput(kind, id, t, n) == [kind |-> kind, id |-> id, t |-> t, n |-> n]

\* the TLVs to encode
TlvInputs ==
    { TlvInput(kind, id, "int", n) : kind \in TlvKinds, id \in TlvIds,
        n \in {0, 1, -1, 127, 128, -128, -129, 255, 256, 32767, 32768, -32768,
               -32769, 8388607} }
    \cup { TlvInput(kind, id, "bool", n) : kind \in TlvKinds, id \in TlvIds, n \in {0, 1} }
    \cup { TlvInput(kind, id, "str", n) : kind \in TlvKinds, id \in TlvIds,
             n \in {0, 7, 8, 9} }
    \cup { TlvInput(kind, id, "bytes", n) : kind \in TlvKinds, id \in TlvIds,
             n \in {0, 7, 8, 255, 256, MaxOpaqueLen - 1, MaxOpaqueLen} }

\* decode_tlv and decode_value on the TLV that encode_tlv made of the
\* value v: the kind, the identifier, the lengths of the value bytes and of
\* the remainder, and whether the decoded value is v
tlv_round_trip(kind, id, v) ==
    Bind(decode_tlv(encode_tlv(kind, id, v).v), LAMBDA d :
      Bind(decode_value(v.t, d.value), LAMBDA dv :
        [type |-> d.type, id |-> d.id, len |-> Len(d.value),
         remain |-> Len(d.remain),
         same |-> IF dv.ok THEN dv.v = v ELSE FALSE]))

\* the TLV is encoded and decoded
TlvRoundTrip ==
    /\ tlv_out = None
    /\ tlv_out' = Some(tlv_round_trip(tlv_in.kind, tlv_in.id,
                                      TlvValue(tlv_in.t, tlv_in.n)))
    /\ UNCHANGED tlv_in
    /\ UNCHANGED others_tlv

NextTlv == TlvRoundTrip

\* C17: decode_tlv of encode_tlv(K, i, v) returns K, i and the bytes of v
\* with an empty remainder, and decode_value of these bytes is v, for the
\* Integer, String, Boolean and Opaque values, the identifiers and the
\* lengths on both sides of the boundaries of the encoding.
C17_TlvRoundTrip ==
    tlv_out # None
        => (/\ tlv_out[1].type = tlv_in.kind
            /\ tlv_out[1].id = tlv_in.id
            /\ tlv_out[1].remain = 0
            /\ tlv_out[1].same)

(***************************************************************************)
(* ig60_fwupdate.py, lwm2m/fwupdate.py: the firmware update object /5/0.   *)
(*                                                                         *)
(* A string is the sequence of its characters, "NUL" standing for the      *)
(* character U+0000.  A task of the event loop is [kind, pc]: it is        *)
(* "created" by create_task, and "awaiting" once it has run up to the      *)
(* await of its download or of its script.  http_download has no await     *)
(* and runs in one step.  The observers of this part observe the state     *)
(* and the result resource.                                                *)
(***************************************************************************)
\* the number of requests to the firmware update object in one behaviour
MaxFwOps == 4

LWM2M_FWUPDATE_RESOURCE_STATE == 3

LWM2M_FWUPDATE_RESOURCE_RESULT == 5

LWM2M_FWUPDATE_STATE_IDLE == 0

LWM2M_FWUPDATE_STATE_DOWNLOADING == 1

LWM2M_FWUPDATE_STATE_DOWNLOADED == 2

LWM2M_FWUPDATE_STATE_UPDATING == 3

LWM2M_FWUPDATE_RESULT_INITIAL == 0

LWM2M_FWUPDATE_RESULT_CONNLOST == 4

LWM2M_FWUPDATE_RESULT_UNSUPPORTED == 6

LWM2M_FWUPDATE_RESULT_INVALID_URI == 7

\* str.startswith
startswith(s, prefix) ==
    /\ Len(prefix) <= Len(s)
    /\ SubSeq(s, 1, Len(prefix)) = prefix

\* the values written to the package URI: "http://h", "coaps://h", a NUL,
\* "ftp://h", "httpx" and the empty string
FwUris ==
    { <<"h", "t", "t", "p", ":", "/", "/", "h">>,
      <<"c", "o", "a", "p", "s", ":", "/", "/", "h">>,
      <<"NUL">>,
      <<"f", "t", "p", ":", "/", "/", "h">>,
      <<"h", "t", "t", "p", "x">>,
      <<>> }

\* the exit codes of the update script
FwReturnCodes == {0, 1, 8}

\* the outcomes of a download: the file was written, the HTTP server
\* answered with an error status, or the transfer raised an exception
FwDownloadOutcomes == {"ok", "not_ok", "raise"}

FwTask(kind, pc) == [kind |-> kind, pc |-> pc]

FwStep(op, uri) == [op |-> op, uri |-> uri]

\* the notification of an observed resource with its new value
FwNote(res, value) == [res |-> res, value |-> value]

\* the values and the notifications a callback of the object works on
FwValues == [state |-> update_state, result |-> update_result, notes |-> fw_notes]

\* LwM2MResourceValue.set_value of a resource of /5/0: the notifications
\* after it
fw_set_value(notes, res, value) ==
    IF res \in fw_observed THEN Append(notes, FwNote(res, value)) ELSE notes

\* LwM2MFWUpdateObject.report_update_state
report_update_state(st, state) ==
    [st EXCEPT !.state = state,
               !.notes = fw_set_value(@, LWM2M_FWUPDATE_RESOURCE_STATE, state)]

\* LwM2MFWUpdateObject.report_update_result
report_update_result(st, result_code) ==
    [st EXCEPT !.result = result_code,
               !.notes = fw_set_value(@, LWM2M_FWUPDATE_RESOURCE_RESULT, result_code)]

\* the values of the object become those of st
FwAssign(st) ==
    /\ update_state' = st.state
    /\ update_result' = st.result
    /\ fw_notes' = st.notes

\* IG60FWUpdateObject.set_update_uri: the task it creates, if any
set_update_uri_task(uri) ==
    IF startswith(uri, <<"NUL">>) THEN <<>>
    ELSE IF startswith(uri, <<"h", "t", "t", "p">>) THEN <<FwTask("http", "created")>>
    ELSE IF startswith(uri, <<"c", "o", "a", "p">>) THEN <<FwTask("coap", "created")>>
    ELSE <<>>

\* IG60FWUpdateObject.set_update_uri: the values after it
set_update_uri(st, uri) ==
    IF startswith(uri, <<"NUL">>)
    THEN report_update_result(report_update_state(st, LWM2M_FWUPDATE_STATE_IDLE),
                              LWM2M_FWUPDATE_RESULT_INITIAL)
    ELSE IF set_update_uri_task(uri) # <<>> THEN st
    ELSE report_update_result(report_update_state(st, LWM2M_FWUPDATE_STATE_IDLE),
                              LWM2M_FWUPDATE_RESULT_INVALID_URI)

\* a write of the string uri to /5/0/1: LwM2MResourceBase.update calls
\* set_update_uri
FwWriteUri ==
    /\ fw_ops < MaxFwOps
    /\ fw_ops' = fw_ops + 1
    /\ \E uri \in FwUris :
         /\ fw_last' = FwStep("set_update_uri", uri)
         /\ fw_downloaded' = FALSE
         /\ fw_tasks' = fw_tasks \o set_update_uri_task(uri)
         /\ \E st \in {set_update_uri(FwValues, uri)} : FwAssign(st)
    /\ UNCHANGED fw_observed
    /\ UNCHANGED others_fw

\* POST /5/0/2: LwM2MExecutableResource.render_post calls exec_update
exec_update ==
    /\ fw_ops < MaxFwOps
    /\ fw_ops' = fw_ops + 1
    /\ fw_last' = FwStep("exec_update", <<>>)
    /\ IF update_state # LWM2M_FWUPDATE_STATE_UPDATING
       THEN /\ FwAssign(report_update_state(FwValues, LWM2M_FWUPDATE_STATE_UPDATING))
            /\ fw_tasks' = Append(fw_tasks, FwTask("update", "created"))
       ELSE UNCHANGED <<update_state, update_result, fw_notes, fw_tasks>>
    /\ UNCHANGED <<fw_downloaded, fw_observed>>
    /\ UNCHANGED others_fw

\* the tasks without the i-th
FwWithout(i) == SubSeq(fw_tasks, 1, i - 1) \o SubSeq(fw_tasks, i + 1, Len(fw_tasks))

\* the tasks with the i-th awaiting
FwAwaiting(i) == [fw_tasks EXCEPT ![i].pc = "awaiting"]

\* IG60FWUpdateObject.http_download, from its start to its end
http_download(i) ==
    /\ fw_tasks[i] = FwTask("http", "created")
    /\ fw_last' = FwStep("http_download", <<>>)
    /\ fw_tasks' = FwWithout(i)
    /\ \E outcome \in FwDownloadOutcomes :
         \E st \in {report_update_state(FwValues, LWM2M_FWUPDATE_STATE_DOWNLOADING)} :
            CASE outcome = "ok" ->
                   /\ fw_downloaded' = TRUE
                   /\ FwAssign(report_update_state(st, LWM2M_FWUPDATE_STATE_DOWNLOADED))
              [] outcome = "not_ok" ->
                   /\ UNCHANGED fw_downloaded
                   /\ FwAssign(report_update_result(
                          report_update_state(st, LWM2M_FWUPDATE_STATE_IDLE),
                          LWM2M_FWUPDATE_RESULT_INVALID_URI))
              [] outcome = "raise" ->
                   /\ UNCHANGED fw_downloaded
                   /\ FwAssign(report_update_result(
                          report_update_state(st, LWM2M_FWUPDATE_STATE_IDLE),
                          LWM2M_FWUPDATE_RESULT_CONNLOST))

\* IG60FWUpdateObject.coap_download up to the await of client.download
coap_download_start(i) ==
    /\ fw_tasks[i] = FwTask("coap", "created")
    /\ fw_last' = FwStep("coap_download", <<>>)
    /\ fw_tasks' = FwAwaiting(i)
    /\ FwAssign(report_update_state(FwValues, LWM2M_FWUPDATE_STATE_DOWNLOADING))
    /\ UNCHANGED fw_downloaded

\* IG60FWUpdateObject.coap_download after client.download has returned or
\* raised
coap_download_end(i) ==
    /\ fw_tasks[i] = FwTask("coap", "awaiting")
    /\ fw_last' = FwStep("coap_download", <<>>)
    /\ fw_tasks' = FwWithout(i)
    /\ \E outcome \in FwDownloadOutcomes \ {"not_ok"} :
         IF outcome = "ok"
         THEN /\ fw_downloaded' = TRUE
              /\ FwAssign(report_update_state(FwValues, LWM2M_FWUPDATE_STATE_DOWNLOADED))
         ELSE /\ UNCHANGED fw_downloaded
              /\ FwAssign(report_update_result(
                     report_update_state(FwValues, LWM2M_FWUPDATE_STATE_IDLE),
                     LWM2M_FWUPDATE_RESULT_CONNLOST))

\* IG60FWUpdateObject.perform_update up to the await of the update script
perform_update_start(i) ==
    /\ fw_tasks[i] = FwTask("update", "created")
    /\ fw_last' = FwStep("perform_update_start", <<>>)
    /\ IF ~fw_downloaded
       THEN /\ FwAssign(report_update_result(FwValues, LWM2M_FWUPDATE_RESULT_UNSUPPORTED))
            /\ fw_tasks' = FwWithout(i)
       ELSE /\ UNCHANGED <<update_state, update_result, fw_notes>>
            /\ fw_tasks' = FwAwaiting(i)
    /\ UNCHANGED fw_downloaded

\* IG60FWUpdateObject.perform_update after the update script has exited
\* with returncode
perform_update(i) ==
    /\ fw_tasks[i] = FwTask("update", "awaiting")
    /\ fw_last' = FwStep("perform_update", <<>>)
    /\ fw_tasks' = FwWithout(i)
    /\ fw_downloaded' = FALSE
    /\ \E returncode \in FwReturnCodes :
         FwAssign(report_update_result(
             report_update_state(FwValues, LWM2M_FWUPDATE_STATE_IDLE), returncode))

\* the event loop runs one task of the object up to its next await
FwTaskStep ==
    /\ \E i \in DOMAIN fw_tasks :
         \/ http_download(i)
         \/ coap_download_start(i)
         \/ coap_download_end(i)
         \/ perform_update_start(i)
         \/ perform_update(i)
    /\ UNCHANGED <<fw_observed, fw_ops>>
    /\ UNCHANGED others_fw

\* IG60FWUpdateObject.update_block_start, at the first block of an upload
\* to /5/0/0
update_block_start ==
    /\ fw_ops < MaxFwOps
    /\ fw_ops' = fw_ops + 1
    /\ fw_last' = FwStep("update_block_start", <<>>)
    /\ fw_downloaded' = FALSE
    /\ FwAssign(report_update_state(FwValues, LWM2M_FWUPDATE_STATE_DOWNLOADING))
    /\ UNCHANGED <<fw_tasks, fw_observed>>
    /\ UNCHANGED others_fw

\* IG60FWUpdateObject.update_block_end, at the last block of an upload
update_block_end ==
    /\ fw_ops < MaxFwOps
    /\ fw_ops' = fw_ops + 1
    /\ fw_last' = FwStep("update_block_end", <<>>)
    /\ fw_downloaded' = TRUE
    /\ FwAssign(report_update_state(FwValues, LWM2M_FWUPDATE_STATE_DOWNLOADED))
    /\ UNCHANGED <<fw_tasks, fw_observed>>
    /\ UNCHANGED others_fw

\* GET with Observe=0 on the state or the result resource:
\* update_observation_count sets observe
FwObserve ==
    /\ fw_ops < MaxFwOps
    /\ fw_ops' = fw_ops + 1
    /\ \E res \in {LWM2M_FWUPDATE_RESOURCE_STATE, LWM2M_FWUPDATE_RESOURCE_RESULT} \ fw_observed :
         fw_observed' = fw_observed \cup {res}
    /\ fw_last' = FwStep("observe", <<>>)
    /\ UNCHANGED <<update_state, update_result, fw_downloaded, fw_tasks, fw_notes>>
    /\ UNCHANGED others_fw

NextFw ==
    \/ FwWriteUri
    \/ exec_update
    \/ FwTaskStep
    \/ update_block_start
    \/ update_block_end
    \/ FwObserve

(***************************************************************************)
(* Claims about the firmware update object.                                *)
(***************************************************************************)
\* the notifications the step sends
FwNewNotes == SubSeq(fw_notes', Len(fw_notes) + 1, Len(fw_notes'))

\* the update script has exited and perform_update reports it
FwUpdateReported == \E i \in DOMAIN fw_tasks : perform_update(i)

\* C12: when the update that an Execute of /5/0/2 started has run, the
\* result is the exit code of the script and the state is IDLE, and the
\* result is reported before the state: an observer of both resources is
\* told the result first, and is never told IDLE while the result is still
\* the one from before the update.
C12_ResultBeforeIdle ==
    [][(FwUpdateReported
        /\ fw_observed = {LWM2M_FWUPDATE_RESOURCE_STATE, LWM2M_FWUPDATE_RESOURCE_RESULT})
       => (/\ update_state' = LWM2M_FWUPDATE_STATE_IDLE
           /\ update_result' \in FwReturnCodes
           /\ FwNewNotes = <<FwNote(LWM2M_FWUPDATE_RESOURCE_RESULT, update_result'),
                             FwNote(LWM2M_FWUPDATE_RESOURCE_STATE,
                                    LWM2M_FWUPDATE_STATE_IDLE)>>)]_vars

\* the step is a write of fw_last'.uri to /5/0/1
FwUriWritten == fw_last'.op = "set_update_uri" /\ fw_ops' = fw_ops + 1

\* the value has the scheme http://, https://, coap:// or coaps://
HasUriScheme(uri) ==
    \E scheme \in { <<"h", "t", "t", "p">>, <<"h", "t", "t", "p", "s">>,
                     <<"c", "o", "a", "p">>, <<"c", "o", "a", "p", "s">> } :
        startswith(uri, scheme \o <<":", "/", "/">>)

\* the step has created a download task
FwDownloadStarted == Len(fw_tasks') = Len(fw_tasks) + 1

\* C20: a write to /5/0/1 starts a download if and only if the value has
\* the scheme http(s):// or coap(s)://; a value that starts with a NUL sets
\* state IDLE and result INITIAL; any other value sets result INVALID_URI
\* and state IDLE and starts no download.
C20_DownloadIffUriScheme ==
    [][FwUriWritten
       => (/\ FwDownloadStarted <=> HasUriScheme(fw_last'.uri)
           /\ startswith(fw_last'.uri, <<"NUL">>)
                => (/\ update_state' = LWM2M_FWUPDATE_STATE_IDLE
                    /\ update_result' = LWM2M_FWUPDATE_RESULT_INITIAL)
           /\ (~HasUriScheme(fw_last'.uri) /\ ~startswith(fw_last'.uri, <<"NUL">>))
                => (/\ update_state' = LWM2M_FWUPDATE_STATE_IDLE
                    /\ update_result' = LWM2M_FWUPDATE_RESULT_INVALID_URI
                    /\ ~FwDownloadStarted))]_vars

\* the step is an Execute of /5/0/2
FwExecuted == fw_last'.op = "exec_update" /\ fw_ops' = fw_ops + 1

\* C28: the state becomes UPDATING only from DOWNLOADED; an Execute of
\* /5/0/2 in state IDLE or DOWNLOADING leaves the state as it is and
\* creates no task that runs the update script.
C28_UpdatingOnlyFromDownloaded ==
    [][/\ (update_state' = LWM2M_FWUPDATE_STATE_UPDATING
           /\ update_state # LWM2M_FWUPDATE_STATE_UPDATING)
            => update_state = LWM2M_FWUPDATE_STATE_DOWNLOADED
       /\ (FwExecuted /\ update_state \in {LWM2M_FWUPDATE_STATE_IDLE,
                                           LWM2M_FWUPDATE_STATE_DOWNLOADING})
            => (update_state' = update_state /\ fw_tasks' = fw_tasks)]_vars

\* C29: once the state is UPDATING it eventually returns to IDLE, in
\* whatever state the Execute that set it was accepted, the event loop
\* running every task and the update script terminating.
C29_UpdatingReturnsToIdle ==
    (update_state = LWM2M_FWUPDATE_STATE_UPDATING)
        ~> (update_state = LWM2M_FWUPDATE_STATE_IDLE)

\* the perform_update tasks waiting for the update script they spawned
ScriptsRunning ==
    { i \in DOMAIN fw_tasks : fw_tasks[i] = FwTask("update", "awaiting") }

\* C30: at most one update script runs at any time, however Execute, URI
\* writes, pushed packages and download completions interleave.
C30_OneUpdateScript == Cardinality(ScriptsRunning) <= 1

(***************************************************************************)
(* lwm2m/bootstrap.py and LwM2MClient.client_bootstrap: the Security       *)
(* (Object 0) and Server (Object 1) base objects while the bootstrap       *)
(* server configures the client.  An instance is [inst, uri] or            *)
(* [inst, lifetime]: the resources client_bootstrap reads afterwards.      *)
(***************************************************************************)
\* the number of requests of the bootstrap server in one behaviour
MaxBsOps == 4

LWM2M_SECURITY_SERVER_INSTANCE == 1

LWM2M_SERVER_INSTANCE == 0

\* the Server URIs the bootstrap server writes to /0/1/0
BsUris == {"coaps://srv:5684", "coap://srv2:5683"}

\* the lifetimes the bootstrap server writes to /1/0/1
BsLifetimes == {0, 60}

\* LwM2MSecurityObject.__init__: the Server URI is ''
LwM2MSecurityObject(obj_inst) == [inst |-> obj_inst, uri |-> ""]

\* LwM2MServerObject.__init__: the Lifetime is 0
LwM2MServerObject(obj_inst) == [inst |-> obj_inst, lifetime |-> 0]

\* LwM2MBaseObject.add_obj_inst: self.instances[obj.get_inst()] = obj
add_obj_inst(instances, obj) ==
    { i \in instances : i.inst # obj.inst } \cup {obj}

\* self.instances.get(obj_inst): None or the instance
instances_get(instances, obj_inst) ==
    IF \E i \in instances : i.inst = obj_inst
    THEN Some(CHOOSE i \in instances : i.inst = obj_inst)
    ELSE None

\* LwM2MSecurityBaseObject.get_server_uri
get_server_uri(instances) ==
    IF instances_get(instances, LWM2M_SECURITY_SERVER_INSTANCE) # None
    THEN Some(instances_get(instances, LWM2M_SECURITY_SERVER_INSTANCE)[1].uri)
    ELSE None

\* LwM2MServerBaseObject.get_lifetime: None has no attribute resources
get_lifetime(instances) ==
    IF instances_get(instances, LWM2M_SERVER_INSTANCE) # None
    THEN Ok(instances_get(instances, LWM2M_SERVER_INSTANCE)[1].lifetime)
    ELSE Raise("AttributeError")

\* urlparse(server_uri).hostname of the URIs of the model; urlparse takes
\* None as the empty URL, which has no hostname
hostname(server_uri) ==
    IF server_uri = Some("coaps://srv:5684") THEN Some("srv")
    ELSE IF server_uri = Some("coap://srv2:5683") THEN Some("srv2")
    ELSE None

BsRequest(op, path, value) == [op |-> op, path |-> path, value |-> value]

BsApply(request, resp) ==
    /\ bs_pc = "finish_wait"
    /\ bs_ops < MaxBsOps
    /\ bs_ops' = bs_ops + 1
    /\ bs_req' = request
    /\ bs_resp' = resp
    /\ UNCHANGED <<bs_pc, bs_config>>
    /\ UNCHANGED others_bs

\* DELETE /0: LwM2MSecurityBaseObject.render_delete
SecurityDelete ==
    /\ BsApply(BsRequest("DELETE", "/0", <<>>), "DELETED")
    /\ security_instances' =
           add_obj_inst(security_instances,
                        LwM2MSecurityObject(LWM2M_SECURITY_SERVER_INSTANCE))
    /\ UNCHANGED <<server_instances, finish_received>>

\* DELETE /1: LwM2MServerBaseObject.render_delete
ServerDelete ==
    /\ BsApply(BsRequest("DELETE", "/1", <<>>), "DELETED")
    /\ server_instances' =
           add_obj_inst(server_instances, LwM2MServerObject(LWM2M_SERVER_INSTANCE))
    /\ UNCHANGED <<security_instances, finish_received>>

\* PUT /0/1 with the Server URI: LwM2MObjectInst.render_put of the instance
\* the site holds since render_delete; without it the site has no /0/1
SecurityPut ==
    \E uri \in BsUris :
        /\ BsApply(BsRequest("PUT", "/0/1", Some(uri)),
                   IF instances_get(security_instances,
                                    LWM2M_SECURITY_SERVER_INSTANCE) # None
                   THEN "CHANGED" ELSE "NOT_FOUND")
        /\ security_instances' =
               { IF i.inst = LWM2M_SECURITY_SERVER_INSTANCE
                 THEN [i EXCEPT !.uri = uri] ELSE i : i \in security_instances }
        /\ UNCHANGED <<server_instances, finish_received>>

\* PUT /1/0 with the Lifetime: LwM2MObjectInst.render_put
ServerPut ==
    \E lifetime \in BsLifetimes :
        /\ BsApply(BsRequest("PUT", "/1/0", Some(lifetime)),
                   IF instances_get(server_instances, LWM2M_SERVER_INSTANCE) # None
                   THEN "CHANGED" ELSE "NOT_FOUND")
        /\ server_instances' =
               { IF i.inst = LWM2M_SERVER_INSTANCE
                 THEN [i EXCEPT !.lifetime = lifetime] ELSE i : i \in server_instances }
        /\ UNCHANGED <<security_instances, finish_received>>

\* POST /bs: LwM2MBootstrapFinish.render_post
BootstrapFinishPost ==
    /\ BsApply(BsRequest("POST", "/bs", <<>>), "CHANGED")
    /\ finish_received' = TRUE
    /\ UNCHANGED <<security_instances, server_instances>>

\* client_bootstrap after its wait for bootstrap_finish_event: it shuts the
\* bootstrap context down and takes the server's address and the lifetime
\* from the two objects
client_bootstrap_config ==
    /\ bs_pc = "finish_wait"
    /\ finish_received
    /\ \E lifetime \in {get_lifetime(server_instances)} :
         IF lifetime.ok
         THEN /\ bs_pc' = "returned"
              /\ bs_config' =
                     Some([server_address |-> hostname(get_server_uri(security_instances)),
                           lifetime |-> IF lifetime.v > 0 THEN lifetime.v ELSE LIFETIME])
         ELSE /\ bs_pc' = lifetime.exc
              /\ bs_config' = None
    /\ UNCHANGED <<security_instances, server_instances, finish_received, bs_req,
                   bs_resp, bs_ops>>
    /\ UNCHANGED others_bs

NextBs ==
    \/ SecurityDelete
    \/ ServerDelete
    \/ SecurityPut
    \/ ServerPut
    \/ BootstrapFinishPost
    \/ client_bootstrap_config

(***************************************************************************)
(* Claims about the objects after bootstrap.                               *)
(***************************************************************************)
InstanceIds(instances) == { i.inst : i \in instances }

\* C21: whenever a POST /bs has been received, Object 0 holds exactly one
\* instance, with id 1, and Object 1 holds exactly one instance, with id 0,
\* whatever DELETE and PUT requests the bootstrap server sent before.
C21_OneServerInstanceAfterBootstrap ==
    finish_received
        => /\ InstanceIds(security_instances) = {LWM2M_SECURITY_SERVER_INSTANCE}
           /\ InstanceIds(server_instances) = {LWM2M_SERVER_INSTANCE}

(***************************************************************************)
(* ig60_connmon.py: IG60OfonoRSSIResource, the resource /4/0/2.  Its value *)
(* is computed from the Strength property of Ofono whenever it is read.    *)
(***************************************************************************)
\* the number of requests to /4/0/2 and of changes of the strength
MaxCmOps == 5

LWM2M_CONNMON_RESOURCE_RSSI == 2

\* the strengths Ofono reports, in percent: 22 is -95 dBm, 42 is -80 dBm
OfonoStrengths == {None, Some(22), Some(42), Some(100)}

\* IG60OfonoRSSIResource.get_value: int(-112 + ((strength / 20) * 15)),
\* int() rounding towards zero
rssi_get_value(strength) ==
    IF strength # None
    THEN LET twentieths == (-112 * 20) + (strength[1] * 15)
         IN  PyValue("int", IF twentieths < 0 THEN -((-twentieths) \div 20)
                            ELSE twentieths \div 20)
    ELSE PyValue("NoneType", 0)

\* TlvEncoder.get_resource_value of the RSSI resource
rssi_get_resource_value(strength) ==
    Bind(encode_tlv(TlvType_RESOURCE_VALUE, LWM2M_CONNMON_RESOURCE_RSSI,
                    rssi_get_value(strength)), LAMBDA p :
      [code |-> IF p.ok THEN "CONTENT" ELSE p.exc,
       payload |-> IF p.ok THEN p.v ELSE <<>>])

\* GET /4/0/2, with Observe=0 or without: LwM2MResourceValue.render_get,
\* and update_observation_count when the observer is the first
RssiGet ==
    /\ cm_ops < MaxCmOps
    /\ cm_ops' = cm_ops + 1
    /\ \E with_observe \in BOOLEAN :
         /\ cm_req' = IF with_observe THEN "observe" ELSE "get"
         /\ cm_resp' = rssi_get_resource_value(ofono_strength)
         /\ rssi_observe' = (rssi_observe
                             \/ (with_observe /\ cm_resp'.code = "CONTENT"))
    /\ UNCHANGED <<ofono_strength, rssi_notes>>
    /\ UNCHANGED others_cm

\* the modem reports another strength: no code of the client runs
StrengthChange ==
    /\ cm_ops < MaxCmOps
    /\ cm_ops' = cm_ops + 1
    /\ \E strength \in OfonoStrengths \ {ofono_strength} :
         ofono_strength' = strength
    /\ cm_req' = "strength"
    /\ UNCHANGED <<rssi_observe, rssi_notes, cm_resp>>
    /\ UNCHANGED others_cm

NextCm ==
    \/ RssiGet
    \/ StrengthChange

\* C16: once an observer has subscribed to /4/0/2, a change of the RSSI
\* that the modem reports sends exactly one notification, with the new
\* value, to the observer.
C16_RssiChangeNotifiesOnce ==
    [][(/\ rssi_observe
        /\ ofono_strength # None
        /\ ofono_strength' # None
        /\ rssi_get_value(ofono_strength') # rssi_get_value(ofono_strength))
       => rssi_notes' = Append(rssi_notes, rssi_get_value(ofono_strength'))]_vars

(***************************************************************************)
(* The specifications.  Each starts with every part as its constructor     *)
(* leaves it and runs the actions of one part.                             *)
(***************************************************************************)
\* the object instance after construction
ObjConstructed(with_exec, first_last) ==
    /\ resources = add_order(ObjResources(with_exec), first_last)
    /\ obj_payload = <<>>
    /\ observed = {}
    /\ notifications = <<>>
    /\ obj_resp = "none"
    /\ obj_req = ObjRequest("none", 0, 0, <<>>)
    /\ obj_ops = 0

\* the Block1 resource after construction
B1Constructed ==
    /\ last_block_number = None
    /\ f = FALSE
    /\ open_sinks = 0
    /\ dest_file = <<>>
    /\ total_bytes = 0
    /\ start_calls = 0
    /\ end_calls = 0
    /\ end_seen = None
    /\ b1_log = <<>>

\* IG60LwM2MClient after construction, with the connections cs
RunConstructed(cs) ==
    /\ run_pc = "constructed"
    /\ result = None
    /\ bearer = <<ResInst(0, PyValue("int", LWM2M_BEARER_AUTO), TRUE)>>
    /\ conns = cs
    /\ candidates = <<>>
    /\ bound_to = None
    /\ run_req = RunReq("none", <<>>)
    /\ run_resp = "none"
    /\ run_ops = 0
    /\ sw_update_state = "INITIAL"
    /\ sw_update_result = "INITIAL"
    /\ sw_unpack_tasks = 0
    /\ special_routes = <<>>

\* the Block2 resource after construction, for a file with these contents
B2Constructed(contents, sz_exp, journald) ==
    /\ file_contents = contents
    /\ resp_sz_exp = sz_exp
    /\ b2_f = None
    /\ b2_log = <<>>
    /\ b2_journald = journald
    /\ b2_exists = ~journald
    /\ b2_open = 0

\* IG60FWUpdateObject after construction
FwConstructed ==
    /\ update_state = LWM2M_FWUPDATE_STATE_IDLE
    /\ update_result = LWM2M_FWUPDATE_RESULT_INITIAL
    /\ fw_downloaded = FALSE
    /\ fw_tasks = <<>>
    /\ fw_observed = {}
    /\ fw_notes = <<>>
    /\ fw_last = FwStep("none", <<>>)
    /\ fw_ops = 0

\* IG60OfonoRSSIResource after construction, the modem reporting -95 dBm
CmConstructed ==
    /\ ofono_strength = Some(22)
    /\ rssi_observe = FALSE
    /\ rssi_notes = <<>>
    /\ cm_req = "none"
    /\ cm_resp = [code |-> "none", payload |-> <<>>]
    /\ cm_ops = 0

\* the two base objects as LwM2MClient.__init__ creates them, and
\* client_bootstrap awaiting bootstrap_finish_event
BsConstructed ==
    /\ security_instances = {}
    /\ server_instances = {}
    /\ finish_received = FALSE
    /\ bs_pc = "finish_wait"
    /\ bs_config = None
    /\ bs_req = BsRequest("none", "", <<>>)
    /\ bs_resp = "none"
    /\ bs_ops = 0

\* the TLV i is about to be encoded
TlvConstructed(i) ==
    /\ tlv_in = i
    /\ tlv_out = None

InitBlock1 ==
    /\ B1Constructed
    /\ ObjConstructed(FALSE, FALSE)
    /\ RegConstructed(FALSE)
    /\ RunConstructed({})
    /\ B2Constructed(<<>>, COAP_BLOCKWISE_MAX_EXPONENT, FALSE)
    /\ FwConstructed
    /\ CmConstructed
    /\ TlvConstructed(TlvInput(TlvType_RESOURCE_VALUE, 0, "int", 0))
    /\ BsConstructed

SpecBlock1 == InitBlock1 /\ [][NextBlock1]_vars

InitObj ==
    /\ \E with_exec \in BOOLEAN, first_last \in BOOLEAN :
         ObjConstructed(with_exec, first_last)
    /\ B1Constructed
    /\ RegConstructed(FALSE)
    /\ RunConstructed({})
    /\ B2Constructed(<<>>, COAP_BLOCKWISE_MAX_EXPONENT, FALSE)
    /\ FwConstructed
    /\ CmConstructed
    /\ TlvConstructed(TlvInput(TlvType_RESOURCE_VALUE, 0, "int", 0))
    /\ BsConstructed

SpecObj == InitObj /\ [][NextObj]_vars

InitReg ==
    /\ \E bootstrap \in BOOLEAN : RegConstructed(bootstrap)
    /\ B1Constructed
    /\ ObjConstructed(FALSE, FALSE)
    /\ RunConstructed({})
    /\ B2Constructed(<<>>, COAP_BLOCKWISE_MAX_EXPONENT, FALSE)
    /\ FwConstructed
    /\ CmConstructed
    /\ TlvConstructed(TlvInput(TlvType_RESOURCE_VALUE, 0, "int", 0))
    /\ BsConstructed

SpecReg == InitReg /\ [][NextReg]_vars

InitRun ==
    /\ \E cs \in SUBSET Ifaces : RunConstructed(cs)
    /\ B1Constructed
    /\ ObjConstructed(FALSE, FALSE)
    /\ RegConstructed(FALSE)
    /\ B2Constructed(<<>>, COAP_BLOCKWISE_MAX_EXPONENT, FALSE)
    /\ FwConstructed
    /\ CmConstructed
    /\ TlvConstructed(TlvInput(TlvType_RESOURCE_VALUE, 0, "int", 0))
    /\ BsConstructed

SpecRun == InitRun /\ [][NextRun]_vars

InitBlock2 ==
    /\ \E contents \in B2Files, sz_exp \in B2SizeExponents, journald \in BOOLEAN :
         B2Constructed(contents, sz_exp, journald)
    /\ B1Constructed
    /\ ObjConstructed(FALSE, FALSE)
    /\ RegConstructed(FALSE)
    /\ RunConstructed({})
    /\ FwConstructed
    /\ CmConstructed
    /\ TlvConstructed(TlvInput(TlvType_RESOURCE_VALUE, 0, "int", 0))
    /\ BsConstructed

SpecBlock2 == InitBlock2 /\ [][NextBlock2]_vars

InitBlock2Shared ==
    /\ \E contents \in B2SharedFiles : B2Constructed(contents, 0, FALSE)
    /\ B1Constructed
    /\ ObjConstructed(FALSE, FALSE)
    /\ RegConstructed(FALSE)
    /\ RunConstructed({})
    /\ FwConstructed
    /\ CmConstructed
    /\ TlvConstructed(TlvInput(TlvType_RESOURCE_VALUE, 0, "int", 0))
    /\ BsConstructed

SpecBlock2Shared == InitBlock2Shared /\ [][NextBlock2Shared]_vars

InitFw ==
    /\ FwConstructed
    /\ B1Constructed
    /\ ObjConstructed(FALSE, FALSE)
    /\ RegConstructed(FALSE)
    /\ RunConstructed({})
    /\ B2Constructed(<<>>, COAP_BLOCKWISE_MAX_EXPONENT, FALSE)
    /\ CmConstructed
    /\ TlvConstructed(TlvInput(TlvType_RESOURCE_VALUE, 0, "int", 0))
    /\ BsConstructed

SpecFw == InitFw /\ [][NextFw]_vars

\* the firmware update object with the event loop running every task that
\* can run, which includes the exit of an update script that was spawned;
\* the server is not bound to send any request
SpecFwLive == SpecFw /\ WF_vars(FwTaskStep)

InitCm ==
    /\ CmConstructed
    /\ B1Constructed
    /\ ObjConstructed(FALSE, FALSE)
    /\ RegConstructed(FALSE)
    /\ RunConstructed({})
    /\ B2Constructed(<<>>, COAP_BLOCKWISE_MAX_EXPONENT, FALSE)
    /\ FwConstructed
    /\ TlvConstructed(TlvInput(TlvType_RESOURCE_VALUE, 0, "int", 0))
    /\ BsConstructed

SpecCm == InitCm /\ [][NextCm]_vars

InitTlv ==
    /\ \E i \in TlvInputs : TlvConstructed(i)
    /\ B1Constructed
    /\ ObjConstructed(FALSE, FALSE)
    /\ RegConstructed(FALSE)
    /\ RunConstructed({})
    /\ B2Constructed(<<>>, COAP_BLOCKWISE_MAX_EXPONENT, FALSE)
    /\ FwConstructed
    /\ CmConstructed
    /\ BsConstructed

SpecTlv == InitTlv /\ [][NextTlv]_vars

InitBs ==
    /\ BsConstructed
    /\ B1Constructed
    /\ ObjConstructed(FALSE, FALSE)
    /\ RegConstructed(FALSE)
    /\ RunConstructed({})
    /\ B2Constructed(<<>>, COAP_BLOCKWISE_MAX_EXPONENT, FALSE)
    /\ FwConstructed
    /\ CmConstructed
    /\ TlvConstructed(TlvInput(TlvType_RESOURCE_VALUE, 0, "int", 0))

SpecBs == InitBs /\ [][NextBs]_vars

====
